---- MODULE Spec2Model ----
(***************************************************************************)
(* Model of the coffee-scan web application: the /api/scan route, the      *)
(* vision extraction library, and the two implementations of the           *)
(* /api/reviews route (contextual reviews, multi-source aggregation).      *)
(*                                                                         *)
(* Conventions                                                             *)
(*  - A rating is an integer number of tenths of a star (4.5 stars = 45).  *)
(*    Every threshold the code compares a rating with (1, 3.5, 4.0, 4.5,   *)
(*    4.8, 5) and every rounding boundary of Math.round (x.5) is a whole   *)
(*    number of tenths, so each class of ratings the code distinguishes    *)
(*    has a representative.                                                *)
(*  - A JavaScript value that may be undefined, null or a string is a      *)
(*    string, with ABSENT and NULLV standing for undefined and null.       *)
(*  - An optional object is a sequence of length 0 or 1.                   *)
(*  - Each component has a program counter; "off" means the component is   *)
(*    not part of the specification being checked.                         *)
(***************************************************************************)
EXTENDS Integers, Sequences, FiniteSets, TLC

VARIABLES
  gd_pc, gd_in, gd_out,                                   \* direct calls of generateRatingDistribution
  rv_pc, rv_req, rv_query, rv_productInfo, rv_response,   \* GET /api/reviews, contextual version
  rv_failures,                                            \* history: how the candidates tried so far failed
  rv_launches,                                            \* history: calls of puppeteer.launch
  ag_pc, ag_req, ag_sources, ag_response,                 \* GET /api/reviews, multi-source version
  ag_outbound,                                            \* history: browser launches and requests started
  ag_order,                                               \* history: the tasks in the order they settled
  ag_browser,                                             \* history: the browser launched by scrapeAmazonData
  sc_pc, sc_form, sc_aiResponse, sc_extraction, sc_result, \* POST /api/scan
  sc_fetched, sc_visionCalls, sc_reviewCalls, sc_response,
  vz_pc, vz_in, vz_out,                                   \* calls of extractWithVision
  r3_pc, r3_req, r3_tried, r3_productInfo, r3_response,   \* /api/reviews by method and version of the module
  db_pc, db_roaster, db_sources, db_order, db_result,     \* calls of aggregateReviews
  pf_pc, pf_global, pf_patches, pf_call, pf_elapsed,      \* the patch of fetch and a call through it
  sf_pc, sf_in, sf_out,   \* direct calls of generateSampleFeedback
  hp_pc, hp_file, hp_isScanning, hp_result, hp_error, hp_inflight, hp_scans, hp_cancelled,   \* home page (src/src/app/page.tsx): React state, scan requests in flight
  br_pc, br_in, br_out    \* direct calls of findProductUrl and scrapeProductPage

gdVars == <<gd_pc, gd_in, gd_out>>
rvVars == <<rv_pc, rv_req, rv_query, rv_productInfo, rv_response, rv_failures,
            rv_launches>>
agVars == <<ag_pc, ag_req, ag_sources, ag_response, ag_outbound, ag_order,
            ag_browser>>
scVars == <<sc_pc, sc_form, sc_aiResponse, sc_extraction, sc_result,
            sc_fetched, sc_visionCalls, sc_reviewCalls, sc_response>>
vzVars == <<vz_pc, vz_in, vz_out>>
r3Vars == <<r3_pc, r3_req, r3_tried, r3_productInfo, r3_response>>
dbVars == <<db_pc, db_roaster, db_sources, db_order, db_result>>
pfVars == <<pf_pc, pf_global, pf_patches, pf_call, pf_elapsed>>
sfVars == <<sf_pc, sf_in, sf_out>>
hpVars == <<hp_pc, hp_file, hp_isScanning, hp_result, hp_error, hp_inflight, hp_scans, hp_cancelled>>
brVars == <<br_pc, br_in, br_out>>
vars == <<gdVars, rvVars, agVars, scVars, vzVars, r3Vars, dbVars, pfVars, sfVars, hpVars, brVars>>
\* The variables of the other components, which an action leaves alone
gdOthers == <<rvVars, agVars, scVars, vzVars, r3Vars, dbVars, pfVars, sfVars, hpVars, brVars>>
rvOthers == <<gdVars, agVars, scVars, vzVars, r3Vars, dbVars, pfVars, sfVars, hpVars, brVars>>
agOthers == <<gdVars, rvVars, scVars, vzVars, r3Vars, dbVars, pfVars, sfVars, hpVars, brVars>>
scOthers == <<gdVars, rvVars, agVars, vzVars, r3Vars, dbVars, pfVars, sfVars, hpVars, brVars>>
vzOthers == <<gdVars, rvVars, agVars, scVars, r3Vars, dbVars, pfVars, sfVars, hpVars, brVars>>
r3Others == <<gdVars, rvVars, agVars, scVars, vzVars, dbVars, pfVars, sfVars, hpVars, brVars>>
dbOthers == <<gdVars, rvVars, agVars, scVars, vzVars, r3Vars, pfVars, sfVars, hpVars, brVars>>
pfOthers == <<gdVars, rvVars, agVars, scVars, vzVars, r3Vars, dbVars, sfVars, hpVars, brVars>>
sfOthers == <<gdVars, rvVars, agVars, scVars, vzVars, r3Vars, dbVars, pfVars, hpVars, brVars>>
hpOthers == <<gdVars, rvVars, agVars, scVars, vzVars, r3Vars, dbVars, pfVars, sfVars, brVars>>
brOthers == <<gdVars, rvVars, agVars, scVars, vzVars, r3Vars, dbVars, pfVars, sfVars, hpVars>>

\* ------------------------------------------------------------------ bounds
\* Largest review count a scraped page shows or a direct call passes.
MaxReviews == 200
\* Largest rating (in tenths) a scraped page shows.
MaxRatingT == 52
\* Largest review count an Amazon search result shows.
MaxAmazonReviews == 10
\* Largest number of posts a Reddit search returns.
MaxPosts == 5

\* ------------------------------------------------------- JavaScript values
ABSENT == "<undefined>"
NULLV == "<null>"
\* JavaScript truthiness of an optional string
Truthy(v) == v \notin {ABSENT, NULLV, ""}

MathMax(a, b) == IF a >= b THEN a ELSE b
MathMin(a, b) == IF a <= b THEN a ELSE b
\* Math.round of a value given in tenths (halves round up)
MathRound(t) == (t + 5) \div 10

\* Math.floor(totalReviews * share) in IEEE-754 doubles, share in thousandths.
\* The double product falls just below the exact integer for the pairs
\* listed (all pairs with totalReviews < 520 for the shares the code uses);
\* everywhere else the double floor equals the exact floor.
FloatShort ==
  {<<180, 350>>, <<340, 350>>, <<360, 350>>,
   <<90, 700>>, <<170, 700>>, <<180, 700>>, <<330, 700>>, <<340, 700>>,
   <<350, 700>>, <<360, 700>>}
FloorMul(totalReviews, share) ==
  LET exact == (totalReviews * share) \div 1000
  IN IF <<totalReviews, share>> \in FloatShort THEN exact - 1 ELSE exact

\* Object.values(distribution).reduce((sum, count) => sum + count, 0)
SumValues(distribution) ==
  distribution[1] + distribution[2] + distribution[3] + distribution[4] + distribution[5]

\* ------------------------------------ contextual reviews: rating distribution
\* Shares (thousandths) of the buckets 1..5 for an average rating (tenths).
ContextualShares(averageRating) ==
  IF averageRating >= 48 THEN <<0, 10, 40, 150, 800>>
  ELSE IF averageRating >= 45 THEN <<0, 20, 80, 300, 600>>
  ELSE IF averageRating >= 40 THEN <<10, 40, 150, 400, 400>>
  ELSE IF averageRating >= 35 THEN <<50, 100, 250, 350, 250>>
  ELSE <<100, 250, 300, 200, 150>>

\* The floors alone, without the step that makes the buckets sum to the total.
generateRatingDistribution_NoFix(totalReviews, averageRating) ==
  [s \in 1..5 |-> FloorMul(totalReviews, ContextualShares(averageRating)[s])]

generateRatingDistribution(totalReviews, averageRating) ==
  LET shares == ContextualShares(averageRating)
      distribution == [s \in 1..5 |-> FloorMul(totalReviews, shares[s])]
      currentSum == SumValues(distribution)
      difference == totalReviews - currentSum
      targetRating == MathRound(averageRating)
  IN IF difference # 0 /\ targetRating \in 1..5
       THEN [distribution EXCEPT ![targetRating] = MathMax(0, @ + difference)]
       \* a target outside 1..5 writes a sixth key and leaves the five buckets
       ELSE distribution

\* ----------------------------------------- direct calls of the pure function
GdInit ==
  /\ gd_pc = "call"
  /\ gd_in \in [totalReviews : 0..MaxReviews, averageRating : 10..50]
  /\ gd_out = <<>>
GdOff == gd_pc = "off" /\ gd_in = <<>> /\ gd_out = <<>>

GdCall ==
  /\ gd_pc = "call"
  /\ gd_out' = <<generateRatingDistribution(gd_in.totalReviews, gd_in.averageRating)>>
  /\ gd_pc' = "returned"
  /\ UNCHANGED gd_in
  /\ UNCHANGED gdOthers

\* ------------------------------------ contextual reviews: scraping outcomes
PRODUCT_URL == "https://roaster.example/coffee"
Roasters == {NULLV, "", "Acme Roasters"}
ProductNames == {NULLV, "", "House Blend"}

\* What the body of the try block does before its return: the browser fails
\* to launch, a page call (newPage, setUserAgent, goto, evaluate) throws after
\* the launch, or the page is evaluated.
FindBodies == {"launchFail", "pageFail", "noUrl", "url"}
ScrapeBodies == {"launchFail", "pageFail", "page"}
CloseOutcomes == {"ok", "throws"}

\* finally { if (browser) { await browser.close() } }: close is called on every
\* path on which the launch succeeded.
CloseCalled_OnlyOnSuccess(body) == body \notin {"launchFail", "pageFail"}
CloseCalled(body) == body # "launchFail"
\* What became of the browser a call launched: "none" when the launch failed,
\* "closed" when browser.close() ran, "closeThrew" when it was called and
\* threw, "open" when it was not called.
BrowserFate(body, close) ==
  IF body = "launchFail" THEN "none"
  ELSE IF ~CloseCalled(body) THEN "open"
  ELSE IF close = "ok" THEN "closed"
  ELSE "closeThrew"

\* findProductUrl: the catch returns null, the finally closes a launched
\* browser, and an exception of browser.close() leaves the function.
findProductUrl(body, close) ==
  LET launched == body # "launchFail"
      productUrl == IF body = "url" THEN PRODUCT_URL ELSE NULLV
  IN IF launched /\ close = "throws"
       THEN [threw |-> TRUE, value |-> NULLV]
       ELSE [threw |-> FALSE, value |-> productUrl]

\* The review count taken from the page text: the first match in range.
ScrapedReviewCount(reviewCount) ==
  IF reviewCount > 0 /\ reviewCount < 200 THEN reviewCount ELSE 0
\* The rating taken from the page text (tenths).
ScrapedRating(rating) ==
  IF rating >= 10 /\ rating <= 50 THEN rating ELSE 0

\* scrapeProductPage: the product info of the evaluated page, null from the
\* catch, or the exception of browser.close().
scrapeProductPage(body, close, reviewCount, rating) ==
  LET launched == body # "launchFail"
      productInfo ==
        IF body = "page"
          THEN <<[totalReviews |-> ScrapedReviewCount(reviewCount),
                  averageRating |-> ScrapedRating(rating)]>>
          ELSE <<>>
  IN IF launched /\ close = "throws"
       THEN [threw |-> TRUE, value |-> <<>>]
       ELSE [threw |-> FALSE, value |-> productInfo]

\* One candidate of searchForProductPage without the try/catch around it.
CandidateOutcome_NoCatch(threw, productInfo) ==
  IF threw THEN "throw"
  ELSE IF Len(productInfo) = 1 /\ productInfo[1].totalReviews > 0 THEN "return"
  ELSE "continue"

\* One candidate of searchForProductPage: "return" the product info,
\* "continue" with the next query, or "throw" out of the function.
CandidateOutcome(threw, productInfo) ==
  IF threw THEN "continue"
  ELSE IF Len(productInfo) = 1 /\ productInfo[1].totalReviews > 0 THEN "return"
  ELSE "continue"

\* The review counts read on a scraped page: the small ones and the ones
\* around the largest the scraper accepts.
MaxPageReviews == 12
PageReviewCounts == (0..MaxPageReviews) \cup {MaxReviews - 1, MaxReviews}

\* Number of search queries searchForProductPage builds.
SearchQueryCount == 3

\* ------------------------------------- contextual reviews: the fabrication
\* Math.floor(Math.random() * 50) + 15
RandomReviewCounts == {u + 15 : u \in 0..49}
\* Math.round((Math.random() * 1.5 + 3.5) * 10) / 10, in tenths
RandomRatings == 35..50

\* Math.random() is evaluated only in the branch of the conditional that
\* uses it: the values a call of generateContextualReviews can draw.
ReviewCountDraws(productInfo) ==
  IF Len(productInfo) = 1 /\ productInfo[1].totalReviews > 0
    THEN {0} ELSE RandomReviewCounts
RatingDraws(productInfo) ==
  IF Len(productInfo) = 1 /\ productInfo[1].averageRating > 0
    THEN {0} ELSE RandomRatings

\* sort(() => Math.random() - 0.5): some order of the four templates
Orders == {p \in [1..4 -> 1..4] : \A i, j \in 1..4 : p[i] = p[j] => i = j}
\* Math.min(4, Math.floor(Math.random() * 2) + 3)
SelectedCounts == {3, 4}

\* reviewTemplates with the ratings left as computed
reviewTemplates_NoClamp(averageRating) ==
  <<[author |-> "CoffeeEnthusiast", rating |-> MathRound(averageRating)],
    [author |-> "JavaLover", rating |-> MathRound(averageRating) - 1],
    [author |-> "CoffeeLover22", rating |-> MathRound(averageRating) + 1],
    [author |-> "BaristaLife", rating |-> MathRound(averageRating)]>>

\* reviewTemplates: the author and the rating of each template (the texts,
\* dates and helpful counts are left out).
reviewTemplates(averageRating) ==
  <<[author |-> "CoffeeEnthusiast",
     rating |-> MathMin(5, MathMax(1, MathRound(averageRating)))],
    [author |-> "JavaLover",
     rating |-> MathMin(5, MathMax(1, MathRound(averageRating) - 1))],
    [author |-> "CoffeeLover22",
     rating |-> MathMin(5, MathMax(1, MathRound(averageRating) + 1))],
    [author |-> "BaristaLife", rating |-> MathRound(averageRating)]>>

\* The selected reviews: the first `count` templates of the sorted array
selectedReviews(averageRating, order, count) ==
  [i \in 1..count |-> reviewTemplates(averageRating)[order[i]]]

generateContextualReviews(productInfo, randomReviews, randomRating, order, count) ==
  LET totalReviews ==
        IF Len(productInfo) = 1 /\ productInfo[1].totalReviews > 0
          THEN productInfo[1].totalReviews ELSE randomReviews
      averageRating ==
        IF Len(productInfo) = 1 /\ productInfo[1].averageRating > 0
          THEN productInfo[1].averageRating ELSE randomRating
  IN [totalReviews |-> totalReviews,
      averageRating |-> averageRating,
      ratingDistribution |-> generateRatingDistribution(totalReviews, averageRating),
      recentReviews |-> selectedReviews(averageRating, order, count),
      hasProductPage |-> Len(productInfo) = 1]

\* fetchReviews after searchForProductPage has returned productInfo
fetchReviewsResult(productInfo, randomReviews, randomRating, order, count) ==
  IF Len(productInfo) = 1 /\ productInfo[1].totalReviews > 0
    THEN generateContextualReviews(productInfo, randomReviews, randomRating, order, count)
    ELSE generateContextualReviews(<<>>, randomReviews, randomRating, order, count)

\* --------------------------------------- contextual reviews: the GET handler
JsonResponse(status, success, error, data) ==
  [status |-> status, success |-> success, error |-> error, data |-> data]

\* The test of the parameters that rejects only null
MissingParameter_OnlyNull(roaster, productName) ==
  roaster = NULLV \/ productName = NULLV

\* if (!roaster || !productName)
MissingParameter(roaster, productName) ==
  ~Truthy(roaster) \/ ~Truthy(productName)

RvInit ==
  /\ rv_pc = "idle"
  /\ rv_req = [roaster |-> NULLV, productName |-> NULLV]
  /\ rv_query = 0
  /\ rv_productInfo = <<>>
  /\ rv_response = <<>>
  /\ rv_failures = {}
  /\ rv_launches = 0
RvOff ==
  /\ rv_pc = "off"
  /\ rv_req = [roaster |-> NULLV, productName |-> NULLV]
  /\ rv_query = 0
  /\ rv_productInfo = <<>>
  /\ rv_response = <<>>
  /\ rv_failures = {}
  /\ rv_launches = 0

\* GET: read the query parameters, answer 400 when one is missing.
RvGET ==
  /\ rv_pc = "idle"
  /\ \E roaster \in Roasters, productName \in ProductNames :
       /\ rv_req' = [roaster |-> roaster, productName |-> productName]
       /\ IF MissingParameter(roaster, productName)
            THEN /\ rv_response' = <<JsonResponse(400, FALSE,
                                       "Roaster and product name are required", <<>>)>>
                 /\ rv_pc' = "done"
                 /\ UNCHANGED rv_query
            ELSE /\ rv_pc' = "search"
                 /\ rv_query' = 1
                 /\ UNCHANGED rv_response
  /\ UNCHANGED <<rv_productInfo, rv_failures, rv_launches>>
  /\ UNCHANGED rvOthers

\* History only: why a candidate gave no product info.
FailureKind(threw, productInfo, searching) ==
  IF threw THEN "exception"
  ELSE IF searching THEN "noUrl"
  ELSE IF Len(productInfo) = 0 THEN "nullScrape"
  ELSE "zeroCount"

\* The loop of searchForProductPage after one candidate ended with `outcome`.
RvAfterCandidate(outcome, productInfo) ==
  IF outcome = "throw"
    THEN \* the catch of GET
         /\ rv_response' = <<JsonResponse(500, FALSE, "Failed to fetch reviews", <<>>)>>
         /\ rv_pc' = "done"
         /\ UNCHANGED <<rv_query, rv_productInfo>>
  ELSE IF outcome = "return"
    THEN /\ rv_productInfo' = productInfo
         /\ rv_pc' = "generate"
         /\ UNCHANGED <<rv_query, rv_response>>
  ELSE IF rv_query < SearchQueryCount
    THEN /\ rv_query' = rv_query + 1
         /\ rv_pc' = "search"
         /\ UNCHANGED <<rv_productInfo, rv_response>>
  ELSE \* return null
         /\ rv_productInfo' = <<>>
         /\ rv_pc' = "generate"
         /\ UNCHANGED <<rv_query, rv_response>>

\* findProductUrl for the current query
RvFindProductUrl ==
  /\ rv_pc = "search"
  /\ \E body \in FindBodies, close \in CloseOutcomes :
       LET r == findProductUrl(body, close)
       IN IF ~r.threw /\ Truthy(r.value)
            THEN /\ rv_pc' = "scrape"
                 /\ UNCHANGED <<rv_query, rv_productInfo, rv_response>>
                 /\ UNCHANGED rv_failures
            ELSE /\ RvAfterCandidate(CandidateOutcome(r.threw, <<>>), <<>>)
                 /\ rv_failures' = rv_failures \cup {FailureKind(r.threw, <<>>, TRUE)}
  /\ rv_launches' = rv_launches + 1
  /\ UNCHANGED rv_req
  /\ UNCHANGED rvOthers

\* scrapeProductPage for the URL found for the current query
RvScrapeProductPage ==
  /\ rv_pc = "scrape"
  /\ \E body \in ScrapeBodies, close \in CloseOutcomes,
        reviewCount \in PageReviewCounts, rating \in 0..MaxRatingT :
       LET r == scrapeProductPage(body, close, reviewCount, rating)
       IN /\ RvAfterCandidate(CandidateOutcome(r.threw, r.value), r.value)
          /\ rv_failures' = rv_failures \cup
               (IF ~r.threw /\ Len(r.value) = 1 /\ r.value[1].totalReviews > 0
                  THEN {} ELSE {FailureKind(r.threw, r.value, FALSE)})
  /\ rv_launches' = rv_launches + 1
  /\ UNCHANGED rv_req
  /\ UNCHANGED rvOthers

\* fetchReviews builds the summary and GET answers with it.
RvRespond ==
  /\ rv_pc = "generate"
  /\ \E randomReviews \in ReviewCountDraws(rv_productInfo),
        randomRating \in RatingDraws(rv_productInfo),
        order \in Orders, count \in SelectedCounts :
       rv_response' = <<JsonResponse(200, TRUE, "",
                          <<fetchReviewsResult(rv_productInfo, randomReviews,
                                               randomRating, order, count)>>)>>
  /\ rv_pc' = "done"
  /\ UNCHANGED <<rv_req, rv_query, rv_productInfo, rv_failures, rv_launches>>
  /\ UNCHANGED rvOthers



\* ------------------------- /api/reviews: the versions of the route module
\* The contextual route exists in two versions: the one of route.ts, which
\* exports GET, and a later one, which exports GET and POST, tries direct URLs
\* for Kicking Horse Coffee first and accepts review counts below 500.
Versions == {"route.ts", "later"}
Methods == {"GET", "POST"}
ExportedMethods(version) == IF version = "later" THEN {"GET", "POST"} ELSE {"GET"}

KICKING_HORSE == "Kicking Horse Coffee"
\* A value of a JSON body that is not a string
NOT_A_STRING == "<number>"
\* roaster.toLowerCase().includes('kicking horse')
IsKickingHorse(roaster) == roaster = KICKING_HORSE

DirectUrls == <<"directUrl1", "directUrl2", "directUrl3", "directUrl4">>
SearchQueries == <<"searchQuery1", "searchQuery2", "searchQuery3">>
\* The candidates of searchForProductPage, in the order of its loops
Candidates(version, roaster) ==
  (IF version = "later" /\ IsKickingHorse(roaster) THEN DirectUrls ELSE <<>>)
    \o SearchQueries

\* scrapeProductPage of the later version: review counts below 500
LaterScrapedReviewCount(reviewCount) ==
  IF reviewCount > 0 /\ reviewCount < 500 THEN reviewCount ELSE 0
scrapeProductPageOf(version, body, close, reviewCount, rating) ==
  IF version = "route.ts" THEN scrapeProductPage(body, close, reviewCount, rating)
  ELSE LET launched == body # "launchFail"
           productInfo ==
             IF body = "page"
               THEN <<[totalReviews |-> LaterScrapedReviewCount(reviewCount),
                       averageRating |-> ScrapedRating(rating)]>>
               ELSE <<>>
       IN IF launched /\ close = "throws"
            THEN [threw |-> TRUE, value |-> <<>>]
            ELSE [threw |-> FALSE, value |-> productInfo]

\* The body of the loop for one candidate when a failure of the candidate
\* ends the search without a result
TryCandidate_StopsOnFailure(version, candidate, find, scrape) ==
  IF \E i \in 1..Len(DirectUrls) : DirectUrls[i] = candidate
    THEN [outcome |-> "return", productInfo |-> scrape.value]
  ELSE IF find.threw \/ ~Truthy(find.value)
    THEN [outcome |-> "return", productInfo |-> <<>>]
  ELSE [outcome |-> "return", productInfo |-> scrape.value]

\* The body of the loop for one candidate: a direct URL is scraped; for a
\* search query the URL is looked for and, when found, scraped.
TryCandidate(version, candidate, find, scrape) ==
  IF \E i \in 1..Len(DirectUrls) : DirectUrls[i] = candidate
    THEN [outcome |-> CandidateOutcome(scrape.threw, scrape.value), productInfo |-> scrape.value]
  ELSE IF find.threw \/ ~Truthy(find.value)
    THEN [outcome |-> CandidateOutcome(find.threw, <<>>), productInfo |-> <<>>]
  ELSE [outcome |-> CandidateOutcome(scrape.threw, scrape.value), productInfo |-> scrape.value]

\* reviewTemplates of the later version: the third template has the rounded
\* rating itself
laterReviewTemplates(averageRating) ==
  <<[author |-> "CoffeeEnthusiast",
     rating |-> MathMin(5, MathMax(1, MathRound(averageRating)))],
    [author |-> "JavaLover",
     rating |-> MathMin(5, MathMax(1, MathRound(averageRating) - 1))],
    [author |-> "CoffeeLover22",
     rating |-> MathMin(5, MathMax(1, MathRound(averageRating)))],
    [author |-> "BaristaLife", rating |-> MathRound(averageRating)]>>

KickingHorseReviews == 32
KickingHorseRatingT == 49

\* Math.random() is not evaluated for Kicking Horse Coffee in the later version
ReviewCountDrawsOf(version, roaster, productInfo) ==
  IF version = "later" /\ IsKickingHorse(roaster) THEN {0} ELSE ReviewCountDraws(productInfo)
RatingDrawsOf(version, roaster, productInfo) ==
  IF version = "later" /\ IsKickingHorse(roaster) THEN {0} ELSE RatingDraws(productInfo)

\* generateContextualReviews of either version
generateContextualReviewsOf(version, roaster, productInfo, randomReviews, randomRating, order, count) ==
  IF version = "route.ts"
    THEN generateContextualReviews(productInfo, randomReviews, randomRating, order, count)
    ELSE LET totalReviews ==
               IF Len(productInfo) = 1 /\ productInfo[1].totalReviews > 0
                 THEN productInfo[1].totalReviews
               ELSE IF IsKickingHorse(roaster) THEN KickingHorseReviews
               ELSE randomReviews
             averageRating ==
               IF Len(productInfo) = 1 /\ productInfo[1].averageRating > 0
                 THEN productInfo[1].averageRating
               ELSE IF IsKickingHorse(roaster) THEN KickingHorseRatingT
               ELSE randomRating
         IN [totalReviews |-> totalReviews,
             averageRating |-> averageRating,
             ratingDistribution |-> generateRatingDistribution(totalReviews, averageRating),
             recentReviews |->
               [i \in 1..count |-> laterReviewTemplates(averageRating)[order[i]]],
             hasProductPage |-> Len(productInfo) = 1]

\* fetchReviews of either version, after searchForProductPage
fetchReviewsResultOf(version, roaster, productInfo, randomReviews, randomRating, order, count) ==
  IF Len(productInfo) = 1 /\ productInfo[1].totalReviews > 0
    THEN generateContextualReviewsOf(version, roaster, productInfo, randomReviews,
                                     randomRating, order, count)
    ELSE generateContextualReviewsOf(version, roaster, <<>>, randomReviews,
                                     randomRating, order, count)

\* --------------------------- /api/reviews: a request by method and version
R3Roasters == {ABSENT, NULLV, "", "Acme Roasters", KICKING_HORSE, NOT_A_STRING}
R3ProductNames == {ABSENT, NULLV, "", "House Blend"}
\* await request.json(): an object, null, or a body that is not JSON
BodyKinds == {"object", "null", "notJson"}
NoRequest ==
  [version |-> "route.ts", method |-> "GET", body |-> "object",
   roaster |-> NULLV, productName |-> NULLV]
\* The requests: the query parameters of a GET are strings or null, the
\* fields of the JSON body of a POST are any values or absent.
Requests ==
  [version : Versions, method : {"GET"}, body : {"object"},
   roaster : {NULLV, "", "Acme Roasters", KICKING_HORSE},
   productName : {NULLV, "", "House Blend"}]
    \cup [version : Versions, method : {"POST"}, body : {"object"},
          roaster : R3Roasters, productName : R3ProductNames]
    \cup [version : Versions, method : {"POST"}, body : {"null", "notJson"},
          roaster : {ABSENT}, productName : {ABSENT}]

\* The review counts and ratings read on a scraped page
R3PageReviewCounts == {0, 7, 199, 200, 499, 500}
R3PageRatings == {0, 45}

R3Init ==
  /\ r3_pc = "idle"
  /\ r3_req = NoRequest
  /\ r3_tried = <<>>
  /\ r3_productInfo = <<>>
  /\ r3_response = <<>>
R3Off ==
  /\ r3_pc = "off"
  /\ r3_req = NoRequest
  /\ r3_tried = <<>>
  /\ r3_productInfo = <<>>
  /\ r3_response = <<>>

\* A request arrives: a method the module does not export is answered by the
\* framework (405) and no code of the module runs; else GET or POST runs up to
\* the call of fetchReviews.
R3Request ==
  /\ r3_pc = "idle"
  /\ \E req \in Requests :
       /\ r3_req' = req
       /\ IF req.method \notin ExportedMethods(req.version)
            THEN /\ r3_response' = <<JsonResponse(405, FALSE, "Method Not Allowed", <<>>)>>
                 /\ r3_pc' = "done"
          ELSE IF req.body # "object"
            \* request.json() rejects, or the destructuring of null throws
            THEN /\ r3_response' = <<JsonResponse(500, FALSE, "Failed to fetch reviews", <<>>)>>
                 /\ r3_pc' = "done"
          ELSE IF MissingParameter(req.roaster, req.productName)
            THEN /\ r3_response' = <<JsonResponse(400, FALSE,
                                       "Roaster and product name are required", <<>>)>>
                 /\ r3_pc' = "done"
          ELSE IF req.roaster = NOT_A_STRING
            \* roaster.toLowerCase is not a function
            THEN /\ r3_response' = <<JsonResponse(500, FALSE, "Failed to fetch reviews", <<>>)>>
                 /\ r3_pc' = "done"
          ELSE /\ r3_pc' = "search"
               /\ UNCHANGED r3_response
  /\ UNCHANGED <<r3_tried, r3_productInfo>>
  /\ UNCHANGED r3Others

\* searchForProductPage tries its next candidate.
R3TryCandidate ==
  /\ r3_pc = "search"
  /\ LET candidates == Candidates(r3_req.version, r3_req.roaster)
         candidate == candidates[Len(r3_tried) + 1]
     IN \E findBody \in FindBodies, findClose \in CloseOutcomes,
           scrapeBody \in ScrapeBodies, scrapeClose \in CloseOutcomes,
           reviewCount \in R3PageReviewCounts, rating \in R3PageRatings :
          LET r == TryCandidate(r3_req.version, candidate,
                                findProductUrl(findBody, findClose),
                                scrapeProductPageOf(r3_req.version, scrapeBody,
                                                    scrapeClose, reviewCount, rating))
          IN /\ r3_tried' = Append(r3_tried,
                  [candidate |-> candidate,
                   totalReviews |-> IF Len(r.productInfo) = 1
                                      THEN r.productInfo[1].totalReviews ELSE 0])
             /\ IF r.outcome = "throw"
                  THEN \* the catch of the handler
                       /\ r3_response' = <<JsonResponse(500, FALSE,
                                             "Failed to fetch reviews", <<>>)>>
                       /\ r3_pc' = "done"
                       /\ UNCHANGED r3_productInfo
                ELSE IF r.outcome = "return"
                  THEN /\ r3_productInfo' = r.productInfo
                       /\ r3_pc' = "generate"
                       /\ UNCHANGED r3_response
                ELSE IF Len(r3_tried) + 1 < Len(candidates)
                  THEN /\ r3_pc' = "search"
                       /\ UNCHANGED <<r3_productInfo, r3_response>>
                ELSE \* return null
                     /\ r3_productInfo' = <<>>
                     /\ r3_pc' = "generate"
                     /\ UNCHANGED r3_response
  /\ UNCHANGED r3_req
  /\ UNCHANGED r3Others

\* fetchReviews builds the summary and the handler answers with it.
R3Respond ==
  /\ r3_pc = "generate"
  /\ \E randomReviews \in ReviewCountDrawsOf(r3_req.version, r3_req.roaster, r3_productInfo),
        randomRating \in RatingDrawsOf(r3_req.version, r3_req.roaster, r3_productInfo),
        order \in Orders, count \in SelectedCounts :
       r3_response' = <<JsonResponse(200, TRUE, "",
                          <<fetchReviewsResultOf(r3_req.version, r3_req.roaster,
                                                 r3_productInfo, randomReviews,
                                                 randomRating, order, count)>>)>>
  /\ r3_pc' = "done"
  /\ UNCHANGED <<r3_req, r3_tried, r3_productInfo>>
  /\ UNCHANGED r3Others

\* ------------------------------------ multi-source reviews: the three tasks
\* A settled task of Promise.allSettled
Fulfilled(value) == [status |-> "fulfilled", value |-> value]
Pending == [status |-> "pending", value |-> <<>>]

AmazonBodies == {"launchFail", "pageFail", "noResult", "result"}

\* What became of the browser scrapeAmazonData launched.  `await
\* browser.close()` is the statement after page.evaluate inside the try: an
\* exception of newPage, setUserAgent, goto or evaluate skips it, and the catch
\* only logs and returns null.
AmazonBrowserFate(body, close) ==
  IF body = "launchFail" THEN "none"
  ELSE IF body = "pageFail" THEN "open"
  ELSE IF close = "ok" THEN "closed"
  ELSE "closeThrew"

\* scrapeAmazonData: null from the catch, null when no search result carries
\* both a rating and a review count, else the result with confidence 0.9
\* (confidences are in twentieths: 0.9 = 18/20).
scrapeAmazonData(body, rating, reviewCount, hasUrl) ==
  IF body = "result" /\ rating # 0 /\ reviewCount # 0
    THEN Fulfilled(<<[rating |-> rating, reviewCount |-> reviewCount,
                      hasUrl |-> hasUrl, confidence |-> 18]>>)
    ELSE Fulfilled(<<>>)

RedditBodies == {"fetchFail", "notOk", "badJson", "posts"}

\* Sentiment of a Reddit search result with the given numbers of posts whose
\* titles are positive, negative and neither (the comparisons with 1.5 are
\* doubled to stay in the integers).
RedditSentiment(positiveCount, negativeCount) ==
  IF 2 * positiveCount > 3 * negativeCount THEN "positive"
  ELSE IF 2 * negativeCount > 3 * positiveCount THEN "negative"
  ELSE IF positiveCount - negativeCount <= 2 /\ negativeCount - positiveCount <= 2 THEN "mixed"
  ELSE "neutral"

\* estimatedRating as the fraction num/den of tenths of a star, after
\* Math.min(5, Math.max(1, estimatedRating)).
RedditEstimatedRating(positiveCount, negativeCount, totalMentions) ==
  LET sentiment == RedditSentiment(positiveCount, negativeCount)
      num == IF sentiment = "positive" THEN 40 * totalMentions + 5 * positiveCount
             ELSE IF sentiment = "negative" THEN 25 * totalMentions + 5 * positiveCount
             ELSE 35 * totalMentions
  IN [num |-> MathMin(50 * totalMentions, MathMax(10 * totalMentions, num)),
      den |-> totalMentions]

\* analyzeRedditSentiment: null from the catch, for a response that is not ok
\* and for an empty list of posts; confidence Math.min(0.7, (n / 10) * 0.5) in
\* twentieths.
analyzeRedditSentiment(body, positiveCount, neutralCount, negativeCount) ==
  LET totalMentions == positiveCount + neutralCount + negativeCount
  IN IF body = "posts" /\ totalMentions > 0
       THEN Fulfilled(<<[mentionCount |-> totalMentions,
                         sentiment |-> RedditSentiment(positiveCount, negativeCount),
                         estimatedRating |->
                           RedditEstimatedRating(positiveCount, negativeCount, totalMentions),
                         breakdown |-> <<positiveCount, neutralCount, negativeCount>>,
                         confidence |-> MathMin(14, totalMentions)]>>)
       ELSE Fulfilled(<<>>)

\* scrapeOfficialWebsite returns null.
scrapeOfficialWebsite == Fulfilled(<<>>)

\* ------------------------------- multi-source reviews: rating distribution
AggregatedShares(averageRating) ==
  IF averageRating >= 45 THEN <<2, 8, 40, 250, 700>>
  ELSE IF averageRating >= 40 THEN <<5, 25, 120, 350, 500>>
  ELSE <<20, 80, 300, 350, 250>>

\* generateRatingDistribution of the multi-source version
generateRatingDistributionAggregated(totalReviews, averageRating) ==
  IF totalReviews = 0 THEN [s \in 1..5 |-> 0]
  ELSE [s \in 1..5 |-> FloorMul(totalReviews, AggregatedShares(averageRating)[s])]

\* ------------------------------------ multi-source reviews: the aggregation
\* Math.log(1 + n) in thousandths, rounded, for n = 0..30
LogTable ==
  <<0, 693, 1099, 1386, 1609, 1792, 1946, 2079, 2197, 2303, 2398, 2485, 2565,
    2639, 2708, 2773, 2833, 2890, 2944, 2996, 3045, 3091, 3135, 3178, 3219,
    3258, 3296, 3332, 3367, 3401, 3434>>
MathLog1p(n) == LogTable[n + 1]

\* Math.round(x) for the fraction x = num/den >= 0
MathRoundFraction(num, den) == (2 * num + den) \div (2 * den)

\* The contribution of a source to the weighted average: its rating as a
\* fraction of tenths, its weight confidence * Math.log(1 + count) and its
\* count of data points.
Contribution(rating, confidence, count) ==
  [rating |-> rating, weight |-> confidence * MathLog1p(count), count |-> count]

\* The sources that add to totalRating, totalWeight and totalDataPoints.
Contributions(sources) ==
  (IF Len(sources[1].value) = 1
     THEN <<Contribution([num |-> sources[1].value[1].rating, den |-> 1],
                         sources[1].value[1].confidence,
                         sources[1].value[1].reviewCount)>>
     ELSE <<>>)
  \o (IF Len(sources[2].value) = 1
     THEN <<Contribution(sources[2].value[1].estimatedRating,
                         sources[2].value[1].confidence,
                         sources[2].value[1].mentionCount)>>
     ELSE <<>>)
  \o (IF Len(sources[3].value) = 1
     THEN <<Contribution([num |-> sources[3].value[1].rating, den |-> 1],
                         sources[3].value[1].confidence,
                         sources[3].value[1].reviewCount)>>
     ELSE <<>>)

\* Sums over a sequence of at most three contributions
RECURSIVE DenProduct(_), WeightedSum(_), WeightSum(_), CountSum(_)
DenProduct(cs) == IF cs = <<>> THEN 1 ELSE Head(cs).rating.den * DenProduct(Tail(cs))
\* sum of rating * weight, over the common denominator DenProduct
WeightedSum(cs) ==
  IF cs = <<>> THEN 0
  ELSE Head(cs).rating.num * Head(cs).weight * DenProduct(Tail(cs))
         + Head(cs).rating.den * WeightedSum(Tail(cs))
WeightSum(cs) == IF cs = <<>> THEN 0 ELSE Head(cs).weight + WeightSum(Tail(cs))
CountSum(cs) == IF cs = <<>> THEN 0 ELSE Head(cs).count + CountSum(Tail(cs))

\* overallRating as a fraction of tenths: totalRating / totalWeight, or 3.5
OverallRating(cs) ==
  IF WeightSum(cs) > 0
    THEN [num |-> WeightedSum(cs), den |-> WeightSum(cs) * DenProduct(cs)]
    ELSE [num |-> 35, den |-> 1]

\* The entries pushed to dataSources, in the order of the code
DataSources(sources) ==
  (IF Len(sources[1].value) = 1
     THEN <<[platform |-> "Amazon", type |-> "aggregated",
             rating |-> <<sources[1].value[1].rating>>, sentiment |-> "",
             reviewCount |-> <<sources[1].value[1].reviewCount>>,
             confidence |-> sources[1].value[1].confidence,
             hasUrl |-> sources[1].value[1].hasUrl]>>
     ELSE <<>>)
  \o (IF Len(sources[2].value) = 1
     THEN <<[platform |-> "Reddit", type |-> "sentiment",
             rating |-> <<>>, sentiment |-> sources[2].value[1].sentiment,
             reviewCount |-> <<sources[2].value[1].mentionCount>>,
             confidence |-> sources[2].value[1].confidence,
             hasUrl |-> FALSE]>>
     ELSE <<>>)
  \o (IF Len(sources[3].value) = 1
     THEN <<[platform |-> "Official Website", type |-> "aggregated",
             rating |-> <<sources[3].value[1].rating>>, sentiment |-> "",
             reviewCount |-> <<sources[3].value[1].reviewCount>>,
             confidence |-> sources[3].value[1].confidence,
             hasUrl |-> sources[3].value[1].hasUrl]>>
     ELSE <<>>)

\* The entry for estimated data with the confidence of a scraped source
EstimatedSource_Confident ==
  [platform |-> "Estimated", type |-> "summary", rating |-> <<35>>, sentiment |-> "",
   reviewCount |-> <<>>, confidence |-> 18, hasUrl |-> FALSE]

\* The entry pushed when no source gave data (confidence 0.3 = 6/20)
EstimatedSource ==
  [platform |-> "Estimated", type |-> "summary", rating |-> <<35>>, sentiment |-> "",
   reviewCount |-> <<>>, confidence |-> 6, hasUrl |-> FALSE]

RECURSIVE MaxConfidence(_)
MaxConfidence(ds) ==
  IF Len(ds) = 1 THEN ds[1].confidence
  ELSE MathMax(ds[1].confidence, MaxConfidence(Tail(ds)))

\* ---------------------------------- multi-source reviews: sample feedback
\* sources.find(s => s.platform === platform), as a sequence of length 0 or 1
FindPlatform(sources, platform) ==
  LET found == SelectSeq(sources, LAMBDA d : d.platform = platform)
  IN IF found = <<>> THEN <<>> ELSE <<Head(found)>>

Sample(id, rating, source, type) ==
  [id |-> id, rating |-> rating, source |-> source, type |-> type]

\* overallRating >= stars, for the fraction overallRating of tenths
AtLeastStars(overallRating, tenths) == overallRating.num >= tenths * overallRating.den
\* Math.round(overallRating), in stars
RoundedStars(overallRating) == MathRoundFraction(overallRating.num, 10 * overallRating.den)

\* The positive sample
PositiveSample(sources, overallRating) ==
  IF AtLeastStars(overallRating, 40) /\ FindPlatform(sources, "Amazon") # <<>>
    THEN <<Sample("sample-positive", 5, "Amazon Verified", "positive")>>
  ELSE IF AtLeastStars(overallRating, 35)
    THEN <<Sample("sample-positive", 4, "Customer Review", "positive")>>
  ELSE <<>>

\* The sample from the Reddit sentiment
RedditSample(sources) ==
  LET redditSource == FindPlatform(sources, "Reddit")
  IN IF redditSource = <<>> THEN <<>>
     ELSE IF redditSource[1].sentiment \in {"mixed", "neutral"}
       THEN <<Sample("sample-mixed", 3, "r/Coffee Discussion", "mixed")>>
     ELSE IF redditSource[1].sentiment = "positive"
       THEN <<Sample("sample-reddit", 4, "r/Coffee Discussion", "positive")>>
     ELSE <<Sample("sample-reddit", 3, "r/Coffee Discussion", "neutral")>>

\* The sample from the roaster's website
WebsiteSample(sources) ==
  LET websiteSource == FindPlatform(sources, "Official Website")
  IN IF websiteSource # <<>> /\ Len(websiteSource[1].rating) = 1
          /\ websiteSource[1].rating[1] # 0
       THEN LET rating == MathRound(websiteSource[1].rating[1])
            IN <<Sample("sample-website", rating, "Roaster Website",
                        IF rating >= 4 THEN "positive" ELSE "neutral")>>
       ELSE <<>>

\* The two generic samples pushed when there is no sample yet
EstimatedSamples(samples, overallRating) ==
  IF Len(samples) = 0
    THEN <<Sample("sample-estimated-1", RoundedStars(overallRating),
                  "Estimated Feedback", "neutral"),
           Sample("sample-estimated-2", RoundedStars(overallRating),
                  "General Expectation", "neutral")>>
    ELSE samples

\* `sample-filler-${samples.length}`
FillerIds == <<"sample-filler-0", "sample-filler-1", "sample-filler-2">>

\* The samples left as they are
FillSamples_NoFiller(samples, overallRating) == samples

\* while (samples.length < 3) samples.push(filler)
FillSamples(samples, overallRating) ==
  samples \o [i \in 1..(3 - Len(samples)) |->
                Sample(FillerIds[Len(samples) + i], RoundedStars(overallRating),
                       "Additional Context", "neutral")]

generateSampleFeedback(sources, overallRating) ==
  LET samples == PositiveSample(sources, overallRating)
                   \o RedditSample(sources) \o WebsiteSample(sources)
      filled == FillSamples(EstimatedSamples(samples, overallRating), overallRating)
  IN SubSeq(filled, 1, MathMin(3, Len(filled)))

\* fetchAggregatedData once the three tasks have settled
fetchAggregatedData(sources) ==
  LET found == DataSources(sources)
      cs == Contributions(sources)
      overallRating == OverallRating(cs)
      confidenceLevel ==
        IF Len(found) > 0
          THEN MathMin(19, Len(found) * 6 + MaxConfidence(found)) ELSE 6
      dataSources == IF Len(found) = 0 THEN <<EstimatedSource>> ELSE found
      totalDataPoints == IF Len(found) = 0 THEN 0 ELSE CountSum(cs)
      averageRating == MathRoundFraction(overallRating.num, overallRating.den)
  IN [totalReviews |-> totalDataPoints,
      averageRating |-> averageRating,
      ratingDistribution |->
        generateRatingDistributionAggregated(totalDataPoints, averageRating),
      aggregatedData |->
        [overallMetrics |-> [averageRating |-> averageRating,
                             totalDataPoints |-> totalDataPoints,
                             confidenceLevel |-> confidenceLevel,
                             sourcesCount |-> Len(dataSources)],
         dataSources |-> dataSources],
      hasProductPage |-> \E i \in 1..Len(dataSources) : dataSources[i].hasUrl]

\* --------------------------------------- multi-source reviews: the handler
AgInit ==
  /\ ag_pc = "idle"
  /\ ag_req = [roaster |-> NULLV, productName |-> NULLV]
  /\ ag_sources = <<Pending, Pending, Pending>>
  /\ ag_response = <<>>
  /\ ag_outbound = {}
  /\ ag_order = <<>>
  /\ ag_browser = "none"
AgOff ==
  /\ ag_pc = "off"
  /\ ag_req = [roaster |-> NULLV, productName |-> NULLV]
  /\ ag_sources = <<Pending, Pending, Pending>>
  /\ ag_response = <<>>
  /\ ag_outbound = {}
  /\ ag_order = <<>>
  /\ ag_browser = "none"

\* GET: 400 when a parameter is missing, else start the three tasks.
AgGET ==
  /\ ag_pc = "idle"
  /\ \E roaster \in Roasters, productName \in ProductNames :
       /\ ag_req' = [roaster |-> roaster, productName |-> productName]
       /\ IF MissingParameter(roaster, productName)
            THEN /\ ag_response' = <<JsonResponse(400, FALSE,
                                       "Roaster and product name are required", <<>>)>>
                 /\ ag_pc' = "done"
                 /\ UNCHANGED ag_outbound
            \* scrapeAmazonData runs up to its await of puppeteer.launch and
            \* analyzeRedditSentiment up to its await of fetch
            ELSE /\ ag_pc' = "allSettled"
                 /\ ag_outbound' = {"puppeteer.launch", "fetch"}
                 /\ UNCHANGED ag_response
  /\ UNCHANGED <<ag_sources, ag_order, ag_browser>>
  /\ UNCHANGED agOthers

AgSettleAmazon ==
  /\ ag_pc = "allSettled"
  /\ ag_sources[1].status = "pending"
  /\ \E body \in AmazonBodies :
       \E rating \in IF body = "result" THEN 0..MaxRatingT ELSE {0},
          reviewCount \in IF body = "result" THEN 0..MaxAmazonReviews ELSE {0},
          hasUrl \in IF body = "result" THEN BOOLEAN ELSE {FALSE} :
         \E close \in IF body \in {"noResult", "result"} THEN CloseOutcomes ELSE {"ok"} :
           \* an exception of browser.close() goes to the catch
           /\ ag_sources' = [ag_sources EXCEPT
                ![1] = scrapeAmazonData(IF close = "throws" THEN "closeFail" ELSE body,
                                        rating, reviewCount, hasUrl)]
           /\ ag_browser' = AmazonBrowserFate(body, close)
  /\ ag_order' = Append(ag_order, 1)
  /\ UNCHANGED <<ag_pc, ag_req, ag_response, ag_outbound>>
  /\ UNCHANGED agOthers

AgSettleReddit ==
  /\ ag_pc = "allSettled"
  /\ ag_sources[2].status = "pending"
  /\ \E body \in RedditBodies :
       \E positiveCount \in IF body = "posts" THEN 0..MaxPosts ELSE {0},
          neutralCount \in IF body = "posts" THEN 0..MaxPosts ELSE {0},
          negativeCount \in IF body = "posts" THEN 0..MaxPosts ELSE {0} :
         /\ positiveCount + neutralCount + negativeCount <= MaxPosts
         /\ ag_sources' = [ag_sources EXCEPT
              ![2] = analyzeRedditSentiment(body, positiveCount, neutralCount, negativeCount)]
  /\ ag_order' = Append(ag_order, 2)
  /\ UNCHANGED <<ag_pc, ag_req, ag_response, ag_outbound, ag_browser>>
  /\ UNCHANGED agOthers

AgSettleWebsite ==
  /\ ag_pc = "allSettled"
  /\ ag_sources[3].status = "pending"
  /\ ag_sources' = [ag_sources EXCEPT ![3] = scrapeOfficialWebsite]
  /\ ag_order' = Append(ag_order, 3)
  /\ UNCHANGED <<ag_pc, ag_req, ag_response, ag_outbound, ag_browser>>
  /\ UNCHANGED agOthers

\* The summary built and sent as soon as one task has settled
AgRespond_NoWait ==
  /\ ag_pc = "allSettled"
  /\ \E i \in 1..3 : ag_sources[i].status # "pending"
  /\ ag_response' = <<JsonResponse(200, TRUE, "", <<fetchAggregatedData(ag_sources)>>)>>
  /\ ag_pc' = "done"
  /\ UNCHANGED <<ag_req, ag_sources, ag_outbound, ag_order, ag_browser>>
  /\ UNCHANGED agOthers

\* The await of Promise.allSettled resumes, the summary is built and sent.
AgRespond ==
  /\ ag_pc = "allSettled"
  /\ \A i \in 1..3 : ag_sources[i].status # "pending"
  /\ ag_response' = <<JsonResponse(200, TRUE, "", <<fetchAggregatedData(ag_sources)>>)>>
  /\ ag_pc' = "done"
  /\ UNCHANGED <<ag_req, ag_sources, ag_outbound, ag_order, ag_browser>>
  /\ UNCHANGED agOthers



\* ------------------------------------------ review aggregator: the tasks
Rejected == [status |-> "rejected", value |-> <<>>]

SourceReview(source, rating, reviewCount, confidence) ==
  [source |-> source, rating |-> rating, reviewCount |-> reviewCount,
   confidence |-> confidence]

\* scrapeAmazonReviews: null from the catch and when the first result lacks a
\* rating or a review count, else the source with confidence 0.9 (18/20)
scrapeAmazonReviews(body, rating, reviewCount) ==
  IF body = "data" /\ rating # 0 /\ reviewCount # 0
    THEN Fulfilled(<<SourceReview("amazon", rating, reviewCount, 18)>>)
    ELSE Fulfilled(<<>>)

\* scrapeRedditSentiment: null from the catch and for no posts, else the
\* rating of the sentiment (4.2, 2.8 or 3.5) with confidence
\* Math.min(0.7, totalMentions / 10)
scrapeRedditSentiment(body, positiveCount, neutralCount, negativeCount) ==
  LET totalMentions == positiveCount + neutralCount + negativeCount
      sentimentRating == IF positiveCount > negativeCount THEN 42
                         ELSE IF negativeCount > positiveCount THEN 28 ELSE 35
  IN IF body = "posts" /\ totalMentions > 0
       THEN Fulfilled(<<SourceReview("reddit", sentimentRating, totalMentions,
                                     MathMin(14, 2 * totalMentions))>>)
       ELSE Fulfilled(<<>>)

\* scrapeProductPage of the aggregator: it has no try/catch, so what its
\* callee throws rejects the task; else the source with confidence 0.8
\* (16/20) when the result has reviews and a rating, else null.
aggregatorScrapeProductPage(body, totalReviews, averageRating) ==
  IF body = "throws" THEN Rejected
  ELSE IF body = "result" /\ totalReviews > 0 /\ averageRating > 0
    THEN Fulfilled(<<SourceReview("product_page", averageRating, totalReviews, 16)>>)
  ELSE Fulfilled(<<>>)

\* validSources of aggregateReviews
validSources(sources) ==
  (IF sources[1].status = "fulfilled" /\ Len(sources[1].value) = 1
     THEN sources[1].value ELSE <<>>)
  \o (IF sources[2].status = "fulfilled" /\ Len(sources[2].value) = 1
        THEN sources[2].value ELSE <<>>)
  \o (IF sources[3].status = "fulfilled" /\ Len(sources[3].value) = 1
        THEN sources[3].value ELSE <<>>)

\* ------------------------------------ review aggregator: calculateConsensus
\* Math.floor(Math.random() * 40) + 15
FallbackReviewCounts == {u + 15 : u \in 0..39}

generateFallbackReview(roaster, randomReviews, randomRating) ==
  [overallRating |-> IF IsKickingHorse(roaster) THEN KickingHorseRatingT ELSE randomRating,
   totalReviews |-> IF IsKickingHorse(roaster) THEN KickingHorseReviews ELSE randomReviews,
   confidence |-> 6,
   sources |-> <<>>]

\* The sources with a rating, as contributions to the weighted average; the
\* weight is confidence * Math.log(1 + (reviewCount || 1)).
SourceContributions(sources) ==
  LET rated == SelectSeq(sources, LAMBDA source : source.rating # 0)
  IN [i \in 1..Len(rated) |->
        Contribution([num |-> rated[i].rating, den |-> 1], rated[i].confidence,
                     IF rated[i].reviewCount = 0 THEN 1 ELSE rated[i].reviewCount)]

RECURSIVE ReviewCountSum(_), MaxSourceConfidence(_)
ReviewCountSum(sources) ==
  IF sources = <<>> THEN 0
  ELSE (IF Head(sources).rating # 0 THEN Head(sources).reviewCount ELSE 0)
         + ReviewCountSum(Tail(sources))
MaxSourceConfidence(sources) ==
  IF Len(sources) = 1 THEN sources[1].confidence
  ELSE MathMax(sources[1].confidence, MaxSourceConfidence(Tail(sources)))

calculateConsensus(sources, roaster, randomReviews, randomRating) ==
  IF Len(sources) = 0 THEN generateFallbackReview(roaster, randomReviews, randomRating)
  ELSE LET overallRating == OverallRating(SourceContributions(sources))
       IN [overallRating |-> MathRoundFraction(overallRating.num, overallRating.den),
           totalReviews |-> ReviewCountSum(sources),
           confidence |-> MathMin(19, Len(sources) * 6 + MaxSourceConfidence(sources)),
           sources |-> sources]

\* ----------------------------------- review aggregator: aggregateReviews
AggregatorRoasters == {"Acme Roasters", KICKING_HORSE}
AggregatorBodies == {"throws", "noData", "data"}
AggregatorRatings == {0, 12, 45, 50}
AggregatorReviewCounts == {0, 1, 10}
MaxTitles == 3
PageBodies == {"throws", "null", "result"}
PageTotals == {0, 5}
PageAverages == {0, 38}

DbInit ==
  /\ db_pc = "idle"
  /\ db_roaster = ""
  /\ db_sources = <<Pending, Pending, Pending>>
  /\ db_order = <<>>
  /\ db_result = <<>>
DbOff ==
  /\ db_pc = "off"
  /\ db_roaster = ""
  /\ db_sources = <<Pending, Pending, Pending>>
  /\ db_order = <<>>
  /\ db_result = <<>>

\* aggregateReviews starts the three tasks and awaits Promise.allSettled.
DbAggregateReviews ==
  /\ db_pc = "idle"
  /\ \E roaster \in AggregatorRoasters : db_roaster' = roaster
  /\ db_pc' = "allSettled"
  /\ UNCHANGED <<db_sources, db_order, db_result>>
  /\ UNCHANGED dbOthers

DbSettleAmazon ==
  /\ db_pc = "allSettled"
  /\ db_sources[1].status = "pending"
  /\ \E body \in AggregatorBodies :
       \E rating \in IF body = "data" THEN AggregatorRatings ELSE {0},
          reviewCount \in IF body = "data" THEN AggregatorReviewCounts ELSE {0} :
         db_sources' = [db_sources EXCEPT
                          ![1] = scrapeAmazonReviews(body, rating, reviewCount)]
  /\ db_order' = Append(db_order, 1)
  /\ UNCHANGED <<db_pc, db_roaster, db_result>>
  /\ UNCHANGED dbOthers

DbSettleReddit ==
  /\ db_pc = "allSettled"
  /\ db_sources[2].status = "pending"
  /\ \E body \in {"throws", "posts"} :
       \E positiveCount \in IF body = "posts" THEN 0..MaxTitles ELSE {0},
          neutralCount \in IF body = "posts" THEN 0..MaxTitles ELSE {0},
          negativeCount \in IF body = "posts" THEN 0..MaxTitles ELSE {0} :
         /\ positiveCount + neutralCount + negativeCount <= MaxTitles
         /\ db_sources' = [db_sources EXCEPT
              ![2] = scrapeRedditSentiment(body, positiveCount, neutralCount, negativeCount)]
  /\ db_order' = Append(db_order, 2)
  /\ UNCHANGED <<db_pc, db_roaster, db_result>>
  /\ UNCHANGED dbOthers

DbSettleProductPage ==
  /\ db_pc = "allSettled"
  /\ db_sources[3].status = "pending"
  /\ \E body \in PageBodies :
       \E totalReviews \in IF body = "result" THEN PageTotals ELSE {0},
          averageRating \in IF body = "result" THEN PageAverages ELSE {0} :
         db_sources' = [db_sources EXCEPT
              ![3] = aggregatorScrapeProductPage(body, totalReviews, averageRating)]
  /\ db_order' = Append(db_order, 3)
  /\ UNCHANGED <<db_pc, db_roaster, db_result>>
  /\ UNCHANGED dbOthers

\* The await of Promise.allSettled resumes and the consensus is returned.
DbReturn ==
  /\ db_pc = "allSettled"
  /\ \A i \in 1..3 : db_sources[i].status # "pending"
  /\ \E randomReviews \in FallbackReviewCounts, randomRating \in RandomRatings :
       db_result' = <<calculateConsensus(validSources(db_sources), db_roaster,
                                         randomReviews, randomRating)>>
  /\ db_pc' = "done"
  /\ UNCHANGED <<db_roaster, db_sources, db_order>>
  /\ UNCHANGED dbOthers

\* ------------------------------------------------------ POST /api/scan: data
UNABLE == "Unable to extract"
\* A field of the JSON object the vision model answers with
ScanFieldValues == {ABSENT, NULLV, "", UNABLE, "Acme Roasters"}
\* The value of the form field includeReviews (null when the field is absent)
IncludeReviewsValues == {NULLV, "true", "false", "True"}

\* A parsed JSON value as the handler reads it: an object with its fields, a
\* scalar (every property of which is undefined) or null.
JsonObject(roaster, productName, origin) ==
  [t |-> "object", roaster |-> roaster, productName |-> productName,
   origin |-> origin, roastLevel |-> ABSENT, flavorNotes |-> ABSENT]
JsonScalar ==
  [t |-> "scalar", roaster |-> ABSENT, productName |-> ABSENT,
   origin |-> ABSENT, roastLevel |-> ABSENT, flavorNotes |-> ABSENT]
JsonNull ==
  [t |-> "null", roaster |-> ABSENT, productName |-> ABSENT,
   origin |-> ABSENT, roastLevel |-> ABSENT, flavorNotes |-> ABSENT]
JsonValues ==
  {JsonObject(r, p, o) : r \in ScanFieldValues, p \in ScanFieldValues,
                         o \in {ABSENT, "Ethiopia"}}
    \cup {JsonScalar, JsonNull}

\* The content of the vision model's message: absent or empty, or a text,
\* with or without a markdown fence around it, that is JSON or is not.
NoContent == [kind |-> "none", fenced |-> FALSE, json |-> JsonScalar]
AiResponses ==
  {NoContent}
    \cup [kind : {"json"}, fenced : BOOLEAN, json : JsonValues]
    \cup [kind : {"text"}, fenced : BOOLEAN, json : {JsonScalar}]

\* aiResponse || '{}', then the removal of the markdown fence and trim()
CleanResponse(aiResponse) ==
  IF aiResponse.kind = "none"
    THEN [kind |-> "json", json |-> JsonObject(ABSENT, ABSENT, ABSENT)]
    ELSE [kind |-> aiResponse.kind, json |-> aiResponse.json]

\* The record the catch of JSON.parse substitutes
UnableRecord ==
  [t |-> "object", roaster |-> UNABLE, productName |-> UNABLE,
   origin |-> UNABLE, roastLevel |-> UNABLE, flavorNotes |-> "[]"]

\* JSON.parse without the try/catch around it: the SyntaxError leaves the
\* handler through its outer catch.
ParseExtraction_NoCatch(aiResponse) ==
  LET cleanResponse == CleanResponse(aiResponse)
  IN IF cleanResponse.kind = "json"
       THEN [threw |-> FALSE, extraction |-> cleanResponse.json]
       ELSE [threw |-> TRUE, extraction |-> JsonNull]

\* The inner try/catch of POST: the parsed value, or the fixed record
ParseExtraction(aiResponse) ==
  LET cleanResponse == CleanResponse(aiResponse)
  IN IF cleanResponse.kind = "json"
       THEN [threw |-> FALSE, extraction |-> cleanResponse.json]
       ELSE [threw |-> FALSE, extraction |-> UnableRecord]

\* The condition of the review fetch without the two 'Unable to extract' tests
ShouldFetchReviews_NoUnableTest(includeReviews, extraction) ==
  IF ~includeReviews THEN [threw |-> FALSE, value |-> FALSE]
  ELSE IF extraction.t = "null" THEN [threw |-> TRUE, value |-> FALSE]
  ELSE [threw |-> FALSE,
        value |-> Truthy(extraction.roaster) /\ Truthy(extraction.productName)]

\* The condition of the review fetch; reading a property of null throws.
ShouldFetchReviews(includeReviews, extraction) ==
  IF ~includeReviews THEN [threw |-> FALSE, value |-> FALSE]
  ELSE IF extraction.t = "null" THEN [threw |-> TRUE, value |-> FALSE]
  ELSE [threw |-> FALSE,
        value |-> /\ Truthy(extraction.roaster)
                  /\ Truthy(extraction.productName)
                  /\ extraction.roaster # UNABLE
                  /\ extraction.productName # UNABLE]

\* What the GET of the reviews endpoint does: the fetch rejects, the status
\* is not 2xx, the body is not JSON, or the body is JSON with success and data.
FetchOutcomes ==
  {[kind |-> "networkError", success |-> FALSE, data |-> <<>>],
   [kind |-> "notOk", success |-> FALSE, data |-> <<>>],
   [kind |-> "badJson", success |-> FALSE, data |-> <<>>],
   [kind |-> "body", success |-> FALSE, data |-> <<>>],
   [kind |-> "body", success |-> TRUE, data |-> <<>>],
   [kind |-> "body", success |-> TRUE, data |-> <<"summary">>]}

\* fetchReviews returning the whole body instead of its data
fetchReviews_ReturnsBody(outcome) ==
  IF outcome.kind = "body" THEN <<"body">> ELSE <<>>

\* fetchReviews of the scan route: the data of a successful body, else null
fetchReviews(outcome) ==
  IF outcome.kind = "body" /\ outcome.success THEN outcome.data ELSE <<>>

\* The test of the image part of the form, left out
MissingImage_NoCheck(form) == FALSE

\* if (!image)
MissingImage(form) == ~form.hasImage

\* The answer of the outer catch sent without a status
OuterCatchResponse_NoStatus ==
  JsonResponse(200, FALSE, "AI processing failed", <<>>)

\* The answer of the outer catch of POST
OuterCatchResponse ==
  JsonResponse(500, FALSE, "AI processing failed", <<>>)

\* confidence: 0.9, as a fraction
ScanConfidence == [num |-> 9, den |-> 10]

\* --------------------------------------------------- POST /api/scan: handler
ScInit ==
  /\ sc_pc = "idle"
  /\ sc_form = <<>>
  /\ sc_aiResponse = <<>>
  /\ sc_extraction = <<>>
  /\ sc_result = <<>>
  /\ sc_fetched = <<>>
  /\ sc_visionCalls = 0
  /\ sc_reviewCalls = 0
  /\ sc_response = <<>>
ScOff ==
  /\ sc_pc = "off"
  /\ sc_form = <<>>
  /\ sc_aiResponse = <<>>
  /\ sc_extraction = <<>>
  /\ sc_result = <<>>
  /\ sc_fetched = <<>>
  /\ sc_visionCalls = 0
  /\ sc_reviewCalls = 0
  /\ sc_response = <<>>

\* POST up to the vision call: read the form, answer 400 without an image,
\* read the bytes of the image. request.formData() and image.arrayBuffer()
\* may throw.
ScPOST ==
  /\ sc_pc = "idle"
  /\ \/ \* request.formData() rejects
        /\ sc_response' = <<OuterCatchResponse>>
        /\ sc_pc' = "done"
        /\ UNCHANGED sc_form
     \/ \E hasImage \in BOOLEAN, includeReviews \in IncludeReviewsValues,
           readThrows \in BOOLEAN :
          LET form == [hasImage |-> hasImage, includeReviews |-> includeReviews]
          IN /\ sc_form' = <<form>>
             /\ IF MissingImage(form)
                  THEN /\ sc_response' =
                            <<JsonResponse(400, FALSE, "No image provided", <<>>)>>
                       /\ sc_pc' = "done"
                ELSE IF ~hasImage \/ readThrows
                  \* arrayBuffer of null, or image.arrayBuffer() rejects
                  THEN /\ sc_response' = <<OuterCatchResponse>>
                       /\ sc_pc' = "done"
                ELSE /\ sc_pc' = "vision"
                     /\ UNCHANGED sc_response
  /\ UNCHANGED <<sc_aiResponse, sc_extraction, sc_result, sc_fetched,
                 sc_visionCalls, sc_reviewCalls>>
  /\ UNCHANGED scOthers

\* The vision call and everything up to the review fetch or the answer
ScVision ==
  /\ sc_pc = "vision"
  /\ sc_visionCalls' = sc_visionCalls + 1
  /\ \/ \* the call throws or rejects
        /\ sc_aiResponse' = <<[threw |-> TRUE, content |-> NoContent]>>
        /\ sc_response' = <<OuterCatchResponse>>
        /\ sc_pc' = "done"
        /\ UNCHANGED <<sc_extraction, sc_result>>
     \/ \E aiResponse \in AiResponses :
          LET parsed == ParseExtraction(aiResponse)
              cond == ShouldFetchReviews(sc_form[1].includeReviews = "true", parsed.extraction)
              result == [extraction |-> parsed.extraction,
                         confidence |-> ScanConfidence,
                         productSearched |-> FALSE,
                         productFound |-> FALSE,
                         reviews |-> <<>>]
          IN /\ sc_aiResponse' = <<[threw |-> FALSE, content |-> aiResponse]>>
             /\ IF parsed.threw
                  THEN /\ sc_response' = <<OuterCatchResponse>>
                       /\ sc_pc' = "done"
                       /\ UNCHANGED <<sc_extraction, sc_result>>
                ELSE IF cond.threw
                  THEN /\ sc_extraction' = <<parsed.extraction>>
                       /\ sc_result' = <<result>>
                       /\ sc_response' = <<OuterCatchResponse>>
                       /\ sc_pc' = "done"
                ELSE IF cond.value
                  THEN /\ sc_extraction' = <<parsed.extraction>>
                       /\ sc_result' = <<[result EXCEPT !.productSearched = TRUE]>>
                       /\ sc_pc' = "reviews"
                       /\ UNCHANGED sc_response
                ELSE /\ sc_extraction' = <<parsed.extraction>>
                     /\ sc_result' = <<result>>
                     /\ sc_response' = <<JsonResponse(200, TRUE, "", <<result>>)>>
                     /\ sc_pc' = "done"
  /\ UNCHANGED <<sc_form, sc_fetched, sc_reviewCalls>>
  /\ UNCHANGED scOthers

\* The review fetch whose answer marks the product as found whatever came back
ScFetchReviews_AlwaysFound ==
  /\ sc_pc = "reviews"
  /\ sc_reviewCalls' = sc_reviewCalls + 1
  /\ \E outcome \in FetchOutcomes :
       LET reviews == fetchReviews(outcome)
           result == [sc_result[1] EXCEPT !.reviews = reviews, !.productFound = TRUE]
       IN /\ sc_fetched' = <<outcome>>
          /\ sc_result' = <<result>>
          /\ sc_response' = <<JsonResponse(200, TRUE, "", <<result>>)>>
  /\ sc_pc' = "done"
  /\ UNCHANGED <<sc_form, sc_aiResponse, sc_extraction, sc_visionCalls>>
  /\ UNCHANGED scOthers

\* The review fetch issued again after a failure
ScFetchReviews_Retry ==
  /\ sc_pc = "reviews"
  /\ sc_reviewCalls' = sc_reviewCalls + 1
  /\ \E outcome \in FetchOutcomes :
       LET reviews == fetchReviews(outcome)
           result == IF Len(reviews) = 1
                       THEN [sc_result[1] EXCEPT !.reviews = reviews, !.productFound = TRUE]
                       ELSE sc_result[1]
       IN /\ sc_fetched' = <<outcome>>
          /\ sc_result' = <<result>>
          /\ IF outcome.kind # "body" /\ sc_reviewCalls = 0
               THEN sc_pc' = "reviews" /\ UNCHANGED sc_response
               ELSE /\ sc_response' = <<JsonResponse(200, TRUE, "", <<result>>)>>
                    /\ sc_pc' = "done"
  /\ UNCHANGED <<sc_form, sc_aiResponse, sc_extraction, sc_visionCalls>>
  /\ UNCHANGED scOthers

\* The review fetch and the answer
ScFetchReviews ==
  /\ sc_pc = "reviews"
  /\ sc_reviewCalls' = sc_reviewCalls + 1
  /\ \E outcome \in FetchOutcomes :
       LET reviews == fetchReviews(outcome)
           result == IF Len(reviews) = 1
                       THEN [sc_result[1] EXCEPT !.reviews = reviews, !.productFound = TRUE]
                       ELSE sc_result[1]
       IN /\ sc_fetched' = <<outcome>>
          /\ sc_result' = <<result>>
          /\ sc_response' = <<JsonResponse(200, TRUE, "", <<result>>)>>
  /\ sc_pc' = "done"
  /\ UNCHANGED <<sc_form, sc_aiResponse, sc_extraction, sc_visionCalls>>
  /\ UNCHANGED scOthers


\* ------------------------------------------------ vision library: strings
\* A string on which the library works is a sequence of tokens: words,
\* punctuation and single white-space characters. The string functions below
\* act on whole tokens.
SP == " "
TAB == "<tab>"
IsSpace(token) == token \in {SP, TAB}

RECURSIVE TrimStart(_), TrimEnd(_), CollapseSpaces(_), StringLength(_)
TrimStart(str) ==
  IF str # <<>> /\ IsSpace(Head(str)) THEN TrimStart(Tail(str)) ELSE str
TrimEnd(str) ==
  IF str # <<>> /\ IsSpace(str[Len(str)])
    THEN TrimEnd(SubSeq(str, 1, Len(str) - 1)) ELSE str
\* String.prototype.trim
Trim(str) == TrimEnd(TrimStart(str))
\* replace(/\s+/g, ' ')
CollapseSpaces(str) ==
  IF str = <<>> THEN <<>>
  ELSE IF IsSpace(Head(str)) THEN <<SP>> \o CollapseSpaces(TrimStart(str))
  ELSE <<Head(str)>> \o CollapseSpaces(Tail(str))

LowerToken(token) ==
  CASE token = "By" -> "by"
    [] token = "Roasted" -> "roasted"
    [] token = "Light" -> "light"
    [] token = "Medium" -> "medium"
    [] token = "Dark" -> "dark"
    [] token = "Espresso" -> "espresso"
    [] token = "Pour" -> "pour"
    [] token = "Over" -> "over"
    [] token = "Acme" -> "acme"
    [] token = "Ethiopia" -> "ethiopia"
    [] token = "Chocolate" -> "chocolate"
    [] token = "Washed" -> "washed"
    [] token = "Bourbon" -> "bourbon"
    [] OTHER -> token
\* String.prototype.toLowerCase
ToLowerCase(str) == [i \in 1..Len(str) |-> LowerToken(str[i])]
\* String.prototype.includes
Includes(str, part) ==
  \E i \in 0..(Len(str) - Len(part)) : SubSeq(str, i + 1, i + Len(part)) = part

\* Number of characters of a token
TokenLength(token) ==
  CASE token \in {SP, TAB, "-"} -> 1
    [] token \in {"by", "By"} -> 2
    [] token \in {"Acme", "acme", "Dark", "dark", "Pour", "pour", "Over", "over", "drip"} -> 4
    [] token \in {"Light", "light"} -> 5
    [] token \in {"Medium", "medium", "Washed", "washed"} -> 6
    [] token \in {"Roasted", "roasted", "Bourbon", "bourbon"} -> 7
    [] token \in {"Ethiopia", "ethiopia", "Espresso", "espresso"} -> 8
    [] token \in {"Chocolate", "chocolate"} -> 9
    [] OTHER -> 3
StringLength(str) ==
  IF str = <<>> THEN 0 ELSE TokenLength(Head(str)) + StringLength(Tail(str))

\* ------------------------------------------------- vision library: values
\* A JavaScript value: its type and, by type, its content: the tokens of a
\* string (s), the number (n), the elements of an array (a).
Undefined == [t |-> "undefined", s |-> <<>>, n |-> 0, a |-> <<>>]
Null == [t |-> "null", s |-> <<>>, n |-> 0, a |-> <<>>]
String(str) == [t |-> "string", s |-> str, n |-> 0, a |-> <<>>]
Number(n) == [t |-> "number", s |-> <<>>, n |-> n, a |-> <<>>]
Array(items) == [t |-> "array", s |-> <<>>, n |-> 0, a |-> items]
\* value || null
OrNull(str) == IF str = <<>> THEN Null ELSE String(str)

Fields ==
  {"roaster", "productName", "origin", "region", "farm", "varietal",
   "processingMethod", "roastLevel", "flavorNotes", "altitude", "harvestYear",
   "price", "weight", "brewRecommendations"}
EmptyObject == [f \in Fields |-> Undefined]

\* ----------------------------------- vision library: extractFallbackData
\* The text of an answer that is not JSON, as the four regular expressions of
\* extractFallbackData see it: for each, no match (<<>>) or the captured group.
extractFallbackData(text) ==
  [EmptyObject EXCEPT
     !["roaster"] = IF Len(text.roaster) = 1 THEN OrNull(Trim(text.roaster[1])) ELSE Null,
     !["origin"] = IF Len(text.origin) = 1 THEN OrNull(Trim(text.origin[1])) ELSE Null,
     !["roastLevel"] = IF Len(text.roast) = 1 THEN OrNull(Trim(text.roast[1])) ELSE Null,
     !["flavorNotes"] = Array(<<>>),
     !["brewRecommendations"] =
        IF Len(text.brew) = 1 THEN Array(<<Trim(text.brew[1])>>) ELSE Array(<<>>)]

\* ---------------------------- vision library: calculateExtractionConfidence
\* Weights in hundredths, in the order of the object literal
FieldWeights(extractionDepth) ==
  IF extractionDepth = "basic"
    THEN <<<<"roaster", 35>>, <<"productName", 25>>, <<"origin", 15>>,
           <<"roastLevel", 10>>, <<"flavorNotes", 10>>, <<"brewRecommendations", 5>>>>
    ELSE <<<<"roaster", 30>>, <<"productName", 20>>, <<"origin", 20>>,
           <<"roastLevel", 10>>, <<"flavorNotes", 10>>, <<"processingMethod", 5>>,
           <<"varietal", 5>>>>

\* What one field adds to score
FieldScore(field, value, weight) ==
  IF field \in {"flavorNotes", "varietal", "brewRecommendations"}
    THEN IF value.t = "array" /\ Len(value.a) > 0 THEN weight ELSE 0
  ELSE IF value.t = "string" /\ value.s # <<>> /\ Len(Trim(value.s)) > 0 THEN weight
  ELSE IF value.t = "number" /\ value.n > 0 THEN weight
  ELSE 0

RECURSIVE Score(_, _), MaxScore(_)
Score(data, weights) ==
  IF weights = <<>> THEN 0
  ELSE FieldScore(Head(weights)[1], data[Head(weights)[1]], Head(weights)[2])
         + Score(data, Tail(weights))
MaxScore(weights) ==
  IF weights = <<>> THEN 0 ELSE Head(weights)[2] + MaxScore(Tail(weights))

\* The confidence returned as a percentage instead of a fraction of 1
calculateExtractionConfidence_Percent(data, extractionDepth) ==
  [num |-> 100 * Score(data, FieldWeights(extractionDepth)),
   den |-> MaxScore(FieldWeights(extractionDepth))]

\* Math.min(score / maxScore, 1), as the fraction num/den
calculateExtractionConfidence(data, extractionDepth) ==
  LET score == Score(data, FieldWeights(extractionDepth))
      maxScore == MaxScore(FieldWeights(extractionDepth))
  IN IF score <= maxScore THEN [num |-> score, den |-> maxScore]
     ELSE [num |-> 1, den |-> 1]


\* --------------------------------- vision library: cleanExtractionData
StringFields(extractionDepth) ==
  IF extractionDepth = "basic"
    THEN {"roaster", "productName", "origin", "roastLevel"}
    ELSE {"roaster", "productName", "origin", "region", "farm",
          "processingMethod", "roastLevel", "price", "weight"}
ArrayFields(extractionDepth) ==
  IF extractionDepth = "basic"
    THEN {"flavorNotes", "brewRecommendations"}
    ELSE {"flavorNotes", "varietal", "brewRecommendations"}

\* replace(/^(roasted by|by|from)\s+/i, '')
RemoveRoasterPrefix(str) ==
  IF /\ Len(str) >= 4
     /\ LowerToken(str[1]) = "roasted" /\ str[2] = SP
     /\ LowerToken(str[3]) = "by" /\ IsSpace(str[4])
    THEN TrimStart(SubSeq(str, 4, Len(str)))
  ELSE IF Len(str) >= 2 /\ LowerToken(str[1]) \in {"by", "from"} /\ IsSpace(str[2])
    THEN TrimStart(Tail(str))
  ELSE str

\* A string field's cleaned value. The two replacements of quotation marks
\* put the character they find in its own place.
CleanString(field, str) ==
  LET cleanedValue == CollapseSpaces(Trim(str))
  IN IF field = "roaster" THEN RemoveRoasterPrefix(cleanedValue) ELSE cleanedValue

\* The standard name of a brewing method
StandardBrew(item) ==
  LET cleaned == ToLowerCase(item)
  IN IF Includes(cleaned, <<"pour", SP, "over">>) \/ Includes(cleaned, <<"pour", "-", "over">>)
       THEN <<"pour", "-", "over">>
     ELSE IF Includes(cleaned, <<"french", SP, "press">>) THEN <<"french", "-", "press">>
     ELSE IF Includes(cleaned, <<"cold", SP, "brew">>) THEN <<"cold", "-", "brew">>
     ELSE IF Includes(cleaned, <<"espresso">>) THEN <<"espresso">>
     ELSE IF Includes(cleaned, <<"drip">>) THEN <<"drip">>
     ELSE IF Includes(cleaned, <<"aeropress">>) THEN <<"aeropress">>
     ELSE IF Includes(cleaned, <<"chemex">>) THEN <<"chemex">>
     ELSE IF Includes(cleaned, <<"v60">>) THEN <<"v60">>
     ELSE cleaned

NotBlank(item) == Len(Trim(item)) > 0
MaxItemLength == 30
ShortItem(item) == StringLength(item) > 0 /\ StringLength(item) < MaxItemLength
MaxItems == 6

RECURSIVE RemoveDuplicates(_)
\* [...new Set(array)]
RemoveDuplicates(items) ==
  IF items = <<>> THEN <<>>
  ELSE LET init == RemoveDuplicates(SubSeq(items, 1, Len(items) - 1))
           last == items[Len(items)]
       IN IF \E i \in 1..Len(init) : init[i] = last THEN init ELSE Append(init, last)

\* The cleaned array of an array field, before the test of its length
CleanArray(field, items) ==
  LET kept == SelectSeq(items, NotBlank)
      mapped == [i \in 1..Len(kept) |->
                   IF field = "brewRecommendations"
                     THEN StandardBrew(Trim(kept[i])) ELSE Trim(kept[i])]
      short == SelectSeq(mapped, ShortItem)
  IN SubSeq(short, 1, MathMin(Len(short), MaxItems))

\* new Date().getFullYear()
CurrentYear == 2026
MaxAltitude == 10000
MinHarvestYear == 1900

StandardRoast(str) ==
  LET roastLevel == ToLowerCase(str)
  IN IF Includes(roastLevel, <<"light">>)
       THEN IF Includes(roastLevel, <<"medium">>)
              THEN <<"medium", "-", "light">> ELSE <<"light">>
     ELSE IF Includes(roastLevel, <<"dark">>)
       THEN IF Includes(roastLevel, <<"medium">>)
              THEN <<"medium", "-", "dark">> ELSE <<"dark">>
     ELSE IF Includes(roastLevel, <<"medium">>) THEN <<"medium">>
     ELSE str

StandardProcessing(str) ==
  LET processing == ToLowerCase(str)
  IN IF Includes(processing, <<"washed">>) \/ Includes(processing, <<"wet">>)
       THEN <<"washed">>
     ELSE IF Includes(processing, <<"natural">>) \/ Includes(processing, <<"dry">>)
       THEN <<"natural">>
     ELSE IF Includes(processing, <<"honey">>)
             \/ Includes(processing, <<"pulped", SP, "natural">>)
       THEN <<"honey">>
     ELSE IF Includes(processing, <<"wet", SP, "hulled">>)
             \/ Includes(processing, <<"giling", SP, "basah">>)
       THEN <<"wet", "-", "hulled">>
     ELSE IF Includes(processing, <<"experimental">>) \/ Includes(processing, <<"anaerobic">>)
       THEN <<"experimental">>
     ELSE str

\* One field of the cleaned record; Undefined where cleaned has no such field
CleanField(data, extractionDepth, field) ==
  LET value == data[field]
  IN IF field \in StringFields(extractionDepth)
       THEN IF value.t = "string" /\ Len(Trim(value.s)) > 0
              THEN LET cleanedValue == CleanString(field, value.s)
                   IN IF field = "roastLevel" /\ cleanedValue # <<>>
                        THEN String(StandardRoast(cleanedValue))
                      ELSE IF field = "processingMethod" /\ cleanedValue # <<>>
                        THEN String(StandardProcessing(cleanedValue))
                      ELSE String(cleanedValue)
              ELSE Undefined
     ELSE IF field \in ArrayFields(extractionDepth)
       THEN IF value.t = "array" /\ CleanArray(field, value.a) # <<>>
              THEN Array(RemoveDuplicates(CleanArray(field, value.a)))
              ELSE Undefined
     ELSE IF extractionDepth = "detailed" /\ field = "altitude"
       THEN IF value.t = "number" /\ value.n > 0 /\ value.n < MaxAltitude
              THEN value ELSE Undefined
     ELSE IF extractionDepth = "detailed" /\ field = "harvestYear"
       THEN IF value.t = "number" /\ value.n > MinHarvestYear
               /\ value.n <= CurrentYear
              THEN value ELSE Undefined
     ELSE Undefined

cleanExtractionData(data, extractionDepth) ==
  [field \in Fields |-> CleanField(data, extractionDepth, field)]


\* ----------------------------------------- vision library: extractWithVision
\* What JSON.parse returns: an object with its fields, null, or another value
\* (a number, a string, an array), none of whose fields of interest is defined.
ParsedObject(data) == [t |-> "object", data |-> data]
ParsedOther == [t |-> "other", data |-> EmptyObject]
ParsedNull == [t |-> "null", data |-> EmptyObject]

NoCaptures == [roaster |-> <<>>, origin |-> <<>>, roast |-> <<>>, brew |-> <<>>]

\* The values a field of the answered object takes: absent, null, empty,
\* present, of the wrong type.
StringFieldValues(text) ==
  {Undefined, Null, String(<<>>), String(text), Number(7)}
RoasterValues ==
  StringFieldValues(<<"Roasted", SP, "By", TAB, SP, "Acme", SP>>)
    \cup {String(<<SP, TAB>>), Array(<<<<"Acme">>>>)}
FlavorNotesValues ==
  {Undefined, Null, Array(<<>>), String(<<"Chocolate">>),
   Array(<<<<"Chocolate">>, <<SP>>, <<"Chocolate", SP>>,
           <<"Supercalifragilisticexpialidocious">>>>)}
BrewValues ==
  {Undefined, Null, Array(<<>>), String(<<"Espresso">>),
   Array(<<<<"Pour", SP, "Over">>, <<"drip">>, <<"pour", "-", "over">>>>)}
VarietalValues ==
  {Undefined, Null, Array(<<>>), String(<<"Bourbon">>), Array(<<<<"Bourbon">>>>)}

\* The objects the vision model answers with: the weighted fields of each
\* extraction depth vary, the others are absent.
BasicObjects ==
  {[EmptyObject EXCEPT !["roaster"] = r, !["productName"] = p, !["origin"] = o,
                       !["roastLevel"] = l, !["flavorNotes"] = f,
                       !["brewRecommendations"] = b] :
     r \in RoasterValues, p \in StringFieldValues(<<"Acme">>),
     o \in StringFieldValues(<<"Ethiopia">>),
     l \in StringFieldValues(<<"Medium", "-", "Dark">>),
     f \in FlavorNotesValues, b \in BrewValues}
DetailedObjects ==
  {[EmptyObject EXCEPT !["roaster"] = r, !["productName"] = p, !["origin"] = o,
                       !["roastLevel"] = l, !["flavorNotes"] = f,
                       !["processingMethod"] = m, !["varietal"] = v] :
     r \in RoasterValues, p \in StringFieldValues(<<"Acme">>),
     o \in StringFieldValues(<<"Ethiopia">>),
     l \in StringFieldValues(<<"Medium", "-", "Dark">>),
     f \in FlavorNotesValues, m \in StringFieldValues(<<"Washed">>),
     v \in VarietalValues}

\* The texts that are not JSON, by what the four regular expressions capture
Texts ==
  [roaster : {<<>>, <<<<SP>>>>, <<<<"By", SP, "Acme", TAB, SP>>>>},
   origin : {<<>>, <<<<SP>>>>, <<<<"Ethiopia", SP>>>>},
   roast : {<<>>, <<<<"light">>>>, <<<<"Dark">>>>},
   brew : {<<>>, <<<<SP>>>>, <<<<"Pour", SP, "Over">>>>, <<<<"Espresso">>>>}]

\* response.choices[0]?.message?.content: absent or empty, or a text, with or
\* without a markdown fence around it, that is JSON or is not.
NoRawResponse ==
  [kind |-> "none", fenced |-> FALSE, json |-> ParsedOther, text |-> NoCaptures]
RawResponses(extractionDepth) ==
  {NoRawResponse}
    \cup [kind : {"json"}, fenced : BOOLEAN,
          json : {ParsedObject(data) :
                    data \in IF extractionDepth = "basic"
                               THEN BasicObjects ELSE DetailedObjects}
                   \cup {ParsedOther, ParsedNull},
          text : {NoCaptures}]
    \cup [kind : {"text"}, fenced : BOOLEAN, json : {ParsedOther}, text : Texts]

Threw(message) ==
  [threw |-> TRUE, error |-> message, structuredData |-> EmptyObject,
   confidence |-> [num |-> 0, den |-> 1]]
Returned(structuredData, confidence) ==
  [threw |-> FALSE, error |-> "", structuredData |-> structuredData,
   confidence |-> confidence]

\* JSON.parse of the cleaned response without the try/catch around it
ParseStructuredData_NoFallback(rawResponse) ==
  IF rawResponse.kind = "json"
    THEN [threw |-> FALSE, value |-> rawResponse.json]
    ELSE [threw |-> TRUE, value |-> ParsedNull]

\* The inner try/catch: the fence is removed and the rest parsed; when that
\* fails, the regular expressions are applied to the raw text.
ParseStructuredData(rawResponse) ==
  IF rawResponse.kind = "json"
    THEN [threw |-> FALSE, value |-> rawResponse.json]
    ELSE [threw |-> FALSE,
          value |-> ParsedObject(extractFallbackData(rawResponse.text))]

extractWithVision(apiKey, extractionDepth, callThrows, rawResponse) ==
  IF ~apiKey THEN Threw("OpenAI API key not configured")
  ELSE IF callThrows THEN Threw("Vision API failed")
  ELSE IF rawResponse.kind = "none" THEN Threw("Vision API failed")
  ELSE LET parsed == ParseStructuredData(rawResponse)
       IN IF parsed.threw THEN Threw("Vision API failed")
          \* calculateExtractionConfidence reads a field of null
          ELSE IF parsed.value.t = "null" THEN Threw("Vision API failed")
          ELSE Returned(cleanExtractionData(parsed.value.data, extractionDepth),
                        calculateExtractionConfidence(parsed.value.data, extractionDepth))

ExtractionDepths == {"basic", "detailed"}
VzInputs ==
  UNION {[apiKey : {TRUE}, extractionDepth : {d}, callThrows : {FALSE},
          rawResponse : RawResponses(d)] : d \in ExtractionDepths}
    \cup [apiKey : BOOLEAN, extractionDepth : ExtractionDepths,
          callThrows : BOOLEAN, rawResponse : {NoRawResponse}]

VzInit ==
  /\ vz_pc = "called"
  /\ vz_in \in VzInputs
  /\ vz_out = <<>>
VzOff ==
  /\ vz_pc = "off"
  /\ vz_in = <<>>
  /\ vz_out = <<>>

\* The processing methods a label names, as the vision model answers them
ProcessingValues ==
  {String(m) : m \in
     {<<"Washed">>, <<"Fully", SP, "Washed">>, <<"wet", SP, "process">>,
      <<"Natural">>, <<"Dry", SP, "Process">>, <<"Honey">>, <<"Black", SP, "Honey">>,
      <<"Pulped", SP, "Natural">>, <<"Wet", SP, "Hulled">>, <<"wet", "-", "hulled">>,
      <<"Giling", SP, "Basah">>, <<"Experimental">>, <<"Anaerobic">>,
      <<"Carbonic", SP, "Maceration">>, <<"washed">>, <<"natural">>, <<"honey">>,
      <<"experimental">>}}
    \cup {Undefined, Null, String(<<>>)}

\* Calls whose answer is an object in which the processing method varies
ProcessingInputs ==
  [apiKey : {TRUE}, extractionDepth : ExtractionDepths, callThrows : {FALSE},
   rawResponse :
     [kind : {"json"}, fenced : BOOLEAN,
      json : {ParsedObject([EmptyObject EXCEPT !["roaster"] = r,
                                               !["processingMethod"] = m]) :
                r \in RoasterValues, m \in ProcessingValues},
      text : {NoCaptures}]]

VzProcessingInit ==
  /\ vz_pc = "called"
  /\ vz_in \in ProcessingInputs
  /\ vz_out = <<>>

VzExtractWithVision ==
  /\ vz_pc = "called"
  /\ vz_out' = <<extractWithVision(vz_in.apiKey, vz_in.extractionDepth,
                                   vz_in.callThrows, vz_in.rawResponse)>>
  /\ vz_pc' = "done"
  /\ UNCHANGED vz_in
  /\ UNCHANGED vzOthers

\* ------------------------------------------------------ the patch of fetch
\* globalThis: the flag __fetch_patched__, and fetch as the timeouts of the
\* wrappers around the original fetch, the outermost last (none: fetch is the
\* original).
Unpatched == [patched |-> FALSE, wrappers |-> <<>>]

DefaultTimeoutMs == 8000
InlineTimeoutMs == 8000

\* opts of patchFetch: {} or { timeoutMs }, as the sequence of its timeoutMs
PatchOpts == {<<>>, <<2000>>, <<12000>>}

\* const { timeoutMs = 8000 } = opts
TimeoutOf(opts) == IF opts = <<>> THEN DefaultTimeoutMs ELSE opts[1]

\* patchFetch that wraps whatever the flag says
patchFetch_NoFlag(global, opts) ==
  [patched |-> TRUE, wrappers |-> Append(global.wrappers, TimeoutOf(opts))]

\* patchFetch(opts): nothing when the flag is set, else the flag is set and
\* fetch becomes timedFetch around the fetch found.
patchFetch(global, opts) ==
  IF global.patched THEN global
  ELSE [patched |-> TRUE, wrappers |-> Append(global.wrappers, TimeoutOf(opts))]

\* The module-level patch: the same flag, the timeout 8000
inlinePatch(global) ==
  IF global.patched THEN global
  ELSE [patched |-> TRUE, wrappers |-> Append(global.wrappers, InlineTimeoutMs)]

MaxPatches == 3

\* Times since the start of a call, in ms, at which something is observed
TimePoints == {1000, 2000, 2001, 7999, 8000, 8001, 12000, 12001, 20000}

\* No call of fetch yet
NoCall == [wrapped |-> FALSE, userSignal |-> FALSE, timeoutMs |-> 0, timer |-> "none"]

\* The signal given to the original fetch: userSignal ?? ac.signal
UsesControllerSignal(call) == ~call.userSignal

PfInit ==
  /\ pf_pc = "idle"
  /\ pf_global = Unpatched
  /\ pf_patches = <<>>
  /\ pf_call = NoCall
  /\ pf_elapsed = 0
PfOff ==
  /\ pf_pc = "off"
  /\ pf_global = Unpatched
  /\ pf_patches = <<>>
  /\ pf_call = NoCall
  /\ pf_elapsed = 0

\* A call of patchFetch(opts)
PfPatchFetch ==
  /\ pf_pc # "off"
  /\ Len(pf_patches) < MaxPatches
  /\ \E opts \in PatchOpts :
       /\ pf_global' = patchFetch(pf_global, opts)
       /\ pf_patches' = Append(pf_patches, TimeoutOf(opts))
  /\ UNCHANGED <<pf_pc, pf_call, pf_elapsed>>
  /\ UNCHANGED pfOthers

\* A module with the inline patch is loaded.
PfInlinePatch ==
  /\ pf_pc # "off"
  /\ Len(pf_patches) < MaxPatches
  /\ pf_global' = inlinePatch(pf_global)
  /\ pf_patches' = Append(pf_patches, InlineTimeoutMs)
  /\ UNCHANGED <<pf_pc, pf_call, pf_elapsed>>
  /\ UNCHANGED pfOthers

\* A call of globalThis.fetch(input, init), init with or without a signal
\* of the caller. Through timedFetch the timer is set and the original fetch
\* is called with the signal userSignal ?? ac.signal.
PfFetch ==
  /\ pf_pc \in {"idle", "resolved", "rejected"}
  /\ \E userSignal \in BOOLEAN :
       pf_call' =
         IF Len(pf_global.wrappers) > 0
           THEN [wrapped |-> TRUE, userSignal |-> userSignal,
                 timeoutMs |-> pf_global.wrappers[Len(pf_global.wrappers)],
                 timer |-> "armed"]
           ELSE [wrapped |-> FALSE, userSignal |-> userSignal,
                 timeoutMs |-> 0, timer |-> "none"]
  /\ pf_elapsed' = 0
  /\ pf_pc' = "pending"
  /\ UNCHANGED <<pf_global, pf_patches>>
  /\ UNCHANGED pfOthers

\* Time passes while the request is pending; an armed timer fires before
\* time passes its delay.
PfElapse ==
  /\ pf_pc = "pending"
  /\ \E t \in TimePoints :
       /\ t > pf_elapsed
       /\ pf_call.timer = "armed" => t <= pf_call.timeoutMs
       /\ pf_elapsed' = t
  /\ UNCHANGED <<pf_pc, pf_global, pf_patches, pf_call>>
  /\ UNCHANGED pfOthers

\* The timer fires: ac.abort(...). The request is aborted, and the call
\* rejects, when the original fetch was given ac.signal.
PfTimeout ==
  /\ pf_pc = "pending"
  /\ pf_call.timer = "armed"
  /\ pf_elapsed >= pf_call.timeoutMs
  /\ pf_call' = [pf_call EXCEPT !.timer = "fired"]
  /\ pf_pc' = IF UsesControllerSignal(pf_call) THEN "rejected" ELSE "pending"
  /\ UNCHANGED <<pf_global, pf_patches, pf_elapsed>>
  /\ UNCHANGED pfOthers

\* The original fetch settles (a response, a network error, an abort by the
\* signal of the caller); finally clearTimeout(timer).
PfSettle ==
  /\ pf_pc = "pending"
  /\ \E outcome \in {"resolved", "rejected"} : pf_pc' = outcome
  /\ pf_call' = [pf_call EXCEPT !.timer = IF @ = "armed" THEN "cleared" ELSE @]
  /\ UNCHANGED <<pf_global, pf_patches, pf_elapsed>>
  /\ UNCHANGED pfOthers

\* ------------------------------------ direct calls of generateSampleFeedback
\* The dataSources that can be passed: each of the three sources present or
\* absent, the Reddit source with any sentiment, the website source with or
\* without a rating; or the single estimated entry.
SourceEntry(platform, type, rating, sentiment) ==
  [platform |-> platform, type |-> type, rating |-> rating, sentiment |-> sentiment,
   reviewCount |-> <<>>, confidence |-> 6, hasUrl |-> FALSE]
AmazonEntries == {<<>>} \cup {<<SourceEntry("Amazon", "aggregated", <<r>>, "")>> : r \in {28, 45}}
RedditEntries ==
  {<<>>} \cup {<<SourceEntry("Reddit", "sentiment", <<>>, sentiment)>> :
                 sentiment \in {"positive", "negative", "mixed", "neutral"}}
WebsiteEntries ==
  {<<>>} \cup {<<SourceEntry("Official Website", "aggregated", r, "")>> :
                 r \in {<<>>, <<0>>, <<34>>, <<35>>, <<46>>}}
SampleSources ==
  {a \o r \o w : a \in AmazonEntries, r \in RedditEntries, w \in WebsiteEntries}
    \cup {<<EstimatedSource>>}
\* Overall ratings from 1.0 to 5.0 in steps of 0.05
SampleRatings == {[num |-> n, den |-> 2] : n \in 20..100}

SfInit ==
  /\ sf_pc = "call"
  /\ sf_in \in [sources : SampleSources, overallRating : SampleRatings]
  /\ sf_out = <<>>
SfOff ==
  /\ sf_pc = "off"
  /\ sf_in = [sources |-> <<>>, overallRating |-> [num |-> 35, den |-> 1]]
  /\ sf_out = <<>>

SfCall ==
  /\ sf_pc = "call"
  /\ sf_out' = generateSampleFeedback(sf_in.sources, sf_in.overallRating)
  /\ sf_pc' = "returned"
  /\ UNCHANGED sf_in
  /\ UNCHANGED sfOthers

\* ---------------------------------------------------------------- home page
\* src/src/app/page.tsx: the state of HomePage and the scan requests that
\* handleScan has sent and that have not finished.  A request is first at its
\* fetch ("fetch"), then at response.json() ("json").
MaxScans == 3
Files == {"a.jpg", "b.jpg"}
\* What fetch('/api/scan') settles with: a rejection, or a response whose body
\* is one of the bodies below.
ScanBodies == {"success", "error", "noError", "unparsable"}
ScanFetchOutcomes == {"rejects"} \cup ScanBodies
ScanRequest(id, f, stage, body) ==
  [id |-> id, file |-> f, stage |-> stage, body |-> body]

HpInit ==
  /\ hp_pc = "mounted"
  /\ hp_file = <<>>
  /\ hp_isScanning = FALSE
  /\ hp_result = <<>>
  /\ hp_error = <<>>
  /\ hp_inflight = {}
  /\ hp_scans = 0
  /\ hp_cancelled = FALSE
HpOff ==
  /\ hp_pc = "off"
  /\ hp_file = <<>>
  /\ hp_isScanning = FALSE
  /\ hp_result = <<>>
  /\ hp_error = <<>>
  /\ hp_inflight = {}
  /\ hp_scans = 0
  /\ hp_cancelled = FALSE

\* The sections the page renders.
UploadSectionShown == hp_file = <<>> /\ hp_result = <<>>
ScanningSectionShown == hp_file # <<>> /\ hp_result = <<>>
ResultsSectionShown == hp_result # <<>>
ErrorSectionShown == hp_error # <<>>
\* The Scan button is rendered in the scanning section, disabled={isScanning}.
ScanButtonEnabled_Always == ScanningSectionShown
ScanButtonEnabled == ScanningSectionShown /\ ~hp_isScanning
\* Cancel, Scan Another Coffee and Try again all call reset.
ResetButtonShown ==
  ScanningSectionShown \/ ResultsSectionShown \/ ErrorSectionShown

\* ImageUploader's onImageSelect={setFile}.
HpSelectFile ==
  /\ hp_pc = "mounted"
  /\ UploadSectionShown
  /\ \E f \in Files : hp_file' = <<f>>
  /\ UNCHANGED <<hp_pc, hp_isScanning, hp_result, hp_error, hp_inflight,
                 hp_scans, hp_cancelled>>
  /\ UNCHANGED hpOthers

\* handleScan up to its first await.
HpHandleScan ==
  /\ hp_pc = "mounted"
  /\ ScanButtonEnabled
  /\ hp_scans < MaxScans
  /\ hp_file # <<>>
  /\ hp_isScanning' = TRUE
  /\ hp_error' = <<>>
  /\ hp_scans' = hp_scans + 1
  /\ hp_inflight' =
       hp_inflight \cup {ScanRequest(hp_scans + 1, hp_file[1], "fetch", "none")}
  /\ hp_cancelled' = FALSE
  /\ UNCHANGED <<hp_pc, hp_file, hp_result>>
  /\ UNCHANGED hpOthers

\* catch: setError('Network error occurred'); finally: setIsScanning(false).
CatchAndFinally_NoFinally(r) ==
  /\ hp_error' = <<"Network error occurred">>
  /\ hp_inflight' = hp_inflight \ {r}
  /\ UNCHANGED <<hp_result, hp_isScanning>>
CatchAndFinally(r) ==
  /\ hp_error' = <<"Network error occurred">>
  /\ hp_isScanning' = FALSE
  /\ hp_inflight' = hp_inflight \ {r}
  /\ UNCHANGED hp_result

\* await fetch(...) settles: a rejection goes to catch, a response to
\* response.json().
HpFetchSettles ==
  /\ hp_pc = "mounted"
  /\ \E r \in hp_inflight :
       /\ r.stage = "fetch"
       /\ \E o \in ScanFetchOutcomes :
            IF o = "rejects"
              THEN CatchAndFinally(r)
              ELSE /\ hp_inflight' =
                        (hp_inflight \ {r}) \cup {ScanRequest(r.id, r.file, "json", o)}
                   /\ UNCHANGED <<hp_result, hp_error, hp_isScanning>>
  /\ UNCHANGED <<hp_pc, hp_file, hp_scans, hp_cancelled>>
  /\ UNCHANGED hpOthers

\* await response.json() settles, and the rest of handleScan runs.
HpJsonSettles ==
  /\ hp_pc = "mounted"
  /\ \E r \in hp_inflight :
       /\ r.stage = "json"
       /\ CASE r.body = "unparsable" -> CatchAndFinally(r)
            [] r.body = "success" ->
                 /\ hp_result' = <<[scan |-> r.id, file |-> r.file]>>
                 /\ hp_isScanning' = FALSE
                 /\ hp_inflight' = hp_inflight \ {r}
                 /\ UNCHANGED hp_error
            [] OTHER ->
                 /\ hp_error' = <<IF r.body = "error" THEN "AI processing failed"
                                                      ELSE "Scan failed">>
                 /\ hp_isScanning' = FALSE
                 /\ hp_inflight' = hp_inflight \ {r}
                 /\ UNCHANGED hp_result
  /\ UNCHANGED <<hp_pc, hp_file, hp_scans, hp_cancelled>>
  /\ UNCHANGED hpOthers

\* reset.  hp_cancelled records that it ran while a scan was in flight and
\* that no scan has been started since.
HpReset ==
  /\ hp_pc = "mounted"
  /\ ResetButtonShown
  /\ hp_file' = <<>>
  /\ hp_result' = <<>>
  /\ hp_error' = <<>>
  /\ hp_cancelled' = (hp_cancelled \/ hp_inflight # {})
  /\ UNCHANGED <<hp_pc, hp_isScanning, hp_inflight, hp_scans>>
  /\ UNCHANGED hpOthers

\* ------------------------------------- direct calls of the browser functions
BrowserCalls ==
  {[fn |-> "findProductUrl", body |-> b, close |-> c, reviewCount |-> 0, rating |-> 0] :
     b \in FindBodies, c \in CloseOutcomes}
  \cup
  {[fn |-> "scrapeProductPage", body |-> b, close |-> c, reviewCount |-> n, rating |-> r] :
     b \in ScrapeBodies, c \in CloseOutcomes, n \in PageReviewCounts, r \in 0..MaxRatingT}
BrInit ==
  /\ br_pc = "call"
  /\ br_in \in BrowserCalls
  /\ br_out = <<>>
BrOff ==
  /\ br_pc = "off"
  /\ br_in = [fn |-> "findProductUrl", body |-> "launchFail", close |-> "ok",
              reviewCount |-> 0, rating |-> 0]
  /\ br_out = <<>>

\* One call runs to its end: it returns a value or throws, and leaves its
\* browser as BrowserFate says.
BrCall ==
  /\ br_pc = "call"
  /\ LET r == IF br_in.fn = "findProductUrl"
                THEN findProductUrl(br_in.body, br_in.close)
                ELSE scrapeProductPage(br_in.body, br_in.close,
                                       br_in.reviewCount, br_in.rating)
     IN br_out' = <<[threw |-> r.threw,
                     returnedNull |->
                       (~r.threw /\ IF br_in.fn = "findProductUrl"
                                      THEN r.value = NULLV ELSE r.value = <<>>),
                     browser |-> BrowserFate(br_in.body, br_in.close)]>>
  /\ br_pc' = "returned"
  /\ UNCHANGED br_in
  /\ UNCHANGED brOthers

\* ------------------------------------------------------------ specifications
\* The contextual-review implementation of /api/reviews, with direct calls of
\* its rating distribution.
InitContextual ==
  \/ GdInit /\ RvOff /\ AgOff /\ ScOff /\ VzOff /\ R3Off /\ DbOff /\ PfOff /\ SfOff /\ HpOff /\ BrOff
  \/ GdOff /\ RvInit /\ AgOff /\ ScOff /\ VzOff /\ R3Off /\ DbOff /\ PfOff /\ SfOff /\ HpOff /\ BrOff
NextContextual ==
  \/ GdCall
  \/ RvGET
  \/ RvFindProductUrl
  \/ RvScrapeProductPage
  \/ RvRespond
SpecContextual == InitContextual /\ [][NextContextual]_vars

\* The multi-source implementation of /api/reviews.
InitAggregated == GdOff /\ RvOff /\ AgInit /\ ScOff /\ VzOff /\ R3Off /\ DbOff /\ PfOff /\ SfOff /\ HpOff /\ BrOff
NextAggregated ==
  \/ AgGET
  \/ AgSettleAmazon
  \/ AgSettleReddit
  \/ AgSettleWebsite
  \/ AgRespond
SpecAggregated == InitAggregated /\ [][NextAggregated]_vars

\* /api/reviews in either of its implementations.
InitReviews ==
  \/ GdOff /\ RvInit /\ AgOff /\ ScOff /\ VzOff /\ R3Off /\ DbOff /\ PfOff /\ SfOff /\ HpOff /\ BrOff
  \/ GdOff /\ RvOff /\ AgInit /\ ScOff /\ VzOff /\ R3Off /\ DbOff /\ PfOff /\ SfOff /\ HpOff /\ BrOff
NextReviews ==
  \/ RvGET
  \/ RvFindProductUrl
  \/ RvScrapeProductPage
  \/ RvRespond
  \/ AgGET
  \/ AgSettleAmazon
  \/ AgSettleReddit
  \/ AgSettleWebsite
  \/ AgRespond
SpecReviews == InitReviews /\ [][NextReviews]_vars

\* The two aggregations over three concurrent tasks: fetchAggregatedData
\* behind GET /api/reviews, and a call of aggregateReviews.
InitAggregators ==
  \/ GdOff /\ RvOff /\ AgInit /\ ScOff /\ VzOff /\ R3Off /\ DbOff /\ PfOff /\ SfOff /\ HpOff /\ BrOff
  \/ GdOff /\ RvOff /\ AgOff /\ ScOff /\ VzOff /\ R3Off /\ DbInit /\ PfOff /\ SfOff /\ HpOff /\ BrOff
NextAggregators ==
  \/ AgGET
  \/ AgSettleAmazon
  \/ AgSettleReddit
  \/ AgSettleWebsite
  \/ AgRespond
  \/ DbAggregateReviews
  \/ DbSettleAmazon
  \/ DbSettleReddit
  \/ DbSettleProductPage
  \/ DbReturn
SpecAggregators == InitAggregators /\ [][NextAggregators]_vars

\* /api/reviews by method, in the two versions of the contextual route.
InitRoute == GdOff /\ RvOff /\ AgOff /\ ScOff /\ VzOff /\ R3Init /\ DbOff /\ PfOff /\ SfOff /\ HpOff /\ BrOff
NextRoute ==
  \/ R3Request
  \/ R3TryCandidate
  \/ R3Respond
SpecRoute == InitRoute /\ [][NextRoute]_vars

\* The patches of fetch and calls of fetch, one at a time.
InitPatch == GdOff /\ RvOff /\ AgOff /\ ScOff /\ VzOff /\ R3Off /\ DbOff /\ PfInit /\ SfOff /\ HpOff /\ BrOff
NextPatch ==
  \/ PfPatchFetch
  \/ PfInlinePatch
  \/ PfFetch
  \/ PfElapse
  \/ PfTimeout
  \/ PfSettle
SpecPatch == InitPatch /\ [][NextPatch]_vars

\* Direct calls of generateSampleFeedback.
InitSamples ==
  GdOff /\ RvOff /\ AgOff /\ ScOff /\ VzOff /\ R3Off /\ DbOff /\ PfOff /\ SfInit /\ HpOff /\ BrOff
NextSamples ==
  \/ SfCall
SpecSamples == InitSamples /\ [][NextSamples]_vars

\* The vision library called with answers that name a processing method.
InitProcessing ==
  GdOff /\ RvOff /\ AgOff /\ ScOff /\ VzProcessingInit /\ R3Off /\ DbOff /\ PfOff /\ SfOff /\ HpOff /\ BrOff
NextProcessing ==
  \/ VzExtractWithVision
SpecProcessing == InitProcessing /\ [][NextProcessing]_vars

\* The scan route.
InitScan == GdOff /\ RvOff /\ AgOff /\ ScInit /\ VzOff /\ R3Off /\ DbOff /\ PfOff /\ SfOff /\ HpOff /\ BrOff
NextScan ==
  \/ ScPOST
  \/ ScVision
  \/ ScFetchReviews
SpecScan == InitScan /\ [][NextScan]_vars

\* The vision library, and the scan handler that answers with a confidence
InitVision ==
  \/ GdOff /\ RvOff /\ AgOff /\ ScOff /\ VzInit /\ R3Off /\ DbOff /\ PfOff /\ SfOff /\ HpOff /\ BrOff
  \/ GdOff /\ RvOff /\ AgOff /\ ScInit /\ VzOff /\ R3Off /\ DbOff /\ PfOff /\ SfOff /\ HpOff /\ BrOff
NextVision ==
  \/ VzExtractWithVision
  \/ ScPOST
  \/ ScVision
  \/ ScFetchReviews
SpecVision == InitVision /\ [][NextVision]_vars

\* The home page.
InitHome ==
  GdOff /\ RvOff /\ AgOff /\ ScOff /\ VzOff /\ R3Off /\ DbOff /\ PfOff /\ SfOff /\ HpInit /\ BrOff
NextHome ==
  \/ HpSelectFile
  \/ HpHandleScan
  \/ HpFetchSettles
  \/ HpJsonSettles
  \/ HpReset
SpecHome == InitHome /\ [][NextHome]_vars
\* The home page when every fetch and every body read settles.
SpecHomeSettles ==
  InitHome /\ [][NextHome]_vars /\ WF_vars(HpFetchSettles) /\ WF_vars(HpJsonSettles)

\* Direct calls of findProductUrl and scrapeProductPage.
InitBrowsers ==
  GdOff /\ RvOff /\ AgOff /\ ScOff /\ VzOff /\ R3Off /\ DbOff /\ PfOff /\ SfOff /\ HpOff /\ BrInit
NextBrowsers ==
  \/ BrCall
SpecBrowsers == InitBrowsers /\ [][NextBrowsers]_vars

\* ------------------------------------------------------------------- claims
BucketsSum(d) == d[1] + d[2] + d[3] + d[4] + d[5]
BucketsNatural(d) == \A s \in 1..5 : d[s] \in Nat

\* C1: in the contextual-review path the five ratingDistribution buckets are
\* non-negative integers whose sum is the total review count, for every count
\* N >= 0 and every average rating in [1, 5] passed to
\* generateRatingDistribution, and for every summary the route returns.
C1_ContextualDistributionSums ==
  /\ gd_pc = "returned" =>
       /\ BucketsNatural(gd_out[1])
       /\ BucketsSum(gd_out[1]) = gd_in.totalReviews
  /\ (rv_pc = "done" /\ rv_response[1].success) =>
       /\ BucketsNatural(rv_response[1].data[1].ratingDistribution)
       /\ BucketsSum(rv_response[1].data[1].ratingDistribution)
            = rv_response[1].data[1].totalReviews

\* A call whose floors fall short of the total (7 reviews at 4.5 stars: 4 + 2)
\* and whose missing review was added to the bucket of the rounded rating.
C1_Witness ==
  /\ gd_pc = "returned"
  /\ gd_in = [totalReviews |-> 7, averageRating |-> 45]
  /\ gd_out[1] = <<0, 0, 0, 2, 5>>

\* C10: a request of the contextual-review GET that carries both roaster and
\* productName is answered 200 with success = true and a summary whose
\* totalReviews is positive, whatever the searches and scrapes did; a scraping
\* failure never leads to the 500 answer.
C10_FailedScrapeFallsThrough ==
  (rv_pc = "done" /\ Truthy(rv_req.roaster) /\ Truthy(rv_req.productName)) =>
    /\ rv_response[1].status = 200
    /\ rv_response[1].success
    /\ Len(rv_response[1].data) = 1
    /\ rv_response[1].data[1].totalReviews > 0

\* Every kind of failure happened among the three candidates, no product info
\* was found, and the answer carries a fabricated summary.
C10_Witness ==
  /\ rv_pc = "done"
  /\ rv_failures = {"exception", "noUrl", "zeroCount"}
  /\ rv_productInfo = <<>>
  /\ rv_response[1].status = 200
  /\ ~rv_response[1].data[1].hasProductPage
  /\ rv_response[1].data[1].totalReviews \in RandomReviewCounts

\* C2: every summary returned by fetchAggregatedData has ratingDistribution
\* buckets that sum to its totalReviews.
C2_AggregatedDistributionSums ==
  (ag_pc = "done" /\ ag_response[1].success) =>
    BucketsSum(ag_response[1].data[1].ratingDistribution)
      = ag_response[1].data[1].totalReviews

\* C4: when the vision call of POST /api/scan throws or rejects, the answer is
\* a 500 with success = false and no data, and no review fetch is made.
C4_FailedVisionCallIs500 ==
  (sc_pc = "done" /\ Len(sc_aiResponse) = 1 /\ sc_aiResponse[1].threw) =>
    /\ sc_response[1].status = 500
    /\ ~sc_response[1].success
    /\ Len(sc_response[1].data) = 0
    /\ sc_reviewCalls = 0
    /\ Len(sc_fetched) = 0

\* The vision call of a request that asked for reviews threw.
C4_Witness ==
  /\ sc_pc = "done"
  /\ sc_aiResponse = <<[threw |-> TRUE, content |-> NoContent]>>
  /\ sc_form[1].includeReviews = "true"
  /\ sc_visionCalls = 1

\* C5: when the text of the vision answer, its markdown fence removed, is not
\* JSON, POST /api/scan still answers 200 with success = true and
\* data.extraction is the fixed record: roaster, productName, origin and
\* roastLevel 'Unable to extract', flavorNotes empty.
C5_FailedParseGivesFixedRecord ==
  (sc_pc = "done" /\ Len(sc_aiResponse) = 1 /\ ~sc_aiResponse[1].threw
     /\ sc_aiResponse[1].content.kind = "text") =>
    /\ sc_response[1].status = 200
    /\ sc_response[1].success
    /\ Len(sc_response[1].data) = 1
    /\ sc_response[1].data[1].extraction.roaster = "Unable to extract"
    /\ sc_response[1].data[1].extraction.productName = "Unable to extract"
    /\ sc_response[1].data[1].extraction.origin = "Unable to extract"
    /\ sc_response[1].data[1].extraction.roastLevel = "Unable to extract"
    /\ sc_response[1].data[1].extraction.flavorNotes = "[]"

\* A fenced text that is not JSON was answered, for a request asking for reviews.
C5_Witness ==
  /\ sc_pc = "done"
  /\ sc_aiResponse = <<[threw |-> FALSE,
                        content |-> [kind |-> "text", fenced |-> TRUE, json |-> JsonScalar]]>>
  /\ sc_form[1].includeReviews = "true"
  /\ sc_response[1].status = 200

\* The request is one for which the claim says reviews are fetched.
C7_Eligible ==
  /\ Len(sc_form) = 1
  /\ sc_form[1].includeReviews = "true"
  /\ Len(sc_extraction) = 1
  /\ sc_extraction[1].roaster \notin {ABSENT, NULLV, "", "Unable to extract"}
  /\ sc_extraction[1].productName \notin {ABSENT, NULLV, "", "Unable to extract"}

\* C7: POST /api/scan requests the reviews endpoint, and answers with
\* productSearched = true, exactly when the form field includeReviews is
\* 'true' and extraction.roaster and extraction.productName are both
\* non-empty and neither is 'Unable to extract'; a scan whose JSON parse
\* failed never fetches reviews.
C7_ReviewsOnlyIfRequestedAndUsable ==
  sc_pc = "done" =>
    /\ (sc_reviewCalls > 0) <=> C7_Eligible
    /\ sc_response[1].status = 200 =>
         (sc_response[1].data[1].productSearched <=> C7_Eligible)
    /\ (Len(sc_aiResponse) = 1 /\ sc_aiResponse[1].content.kind = "text") =>
         sc_reviewCalls = 0

\* Reviews were requested for a usable extraction and the endpoint was called.
C7_Witness ==
  /\ sc_pc = "done"
  /\ Len(sc_form) = 1
  /\ Len(sc_extraction) = 1
  /\ sc_form[1].includeReviews = "true"
  /\ sc_extraction[1].roaster = "Acme Roasters"
  /\ sc_reviewCalls = 1
  /\ sc_response[1].data[1].productSearched

\* The review fetch failed: network error, status not 2xx, a body that is not
\* JSON, or a body with success = false.
C8_FetchFailed ==
  /\ Len(sc_fetched) = 1
  /\ \/ sc_fetched[1].kind \in {"networkError", "notOk", "badJson"}
     \/ sc_fetched[1].kind = "body" /\ ~sc_fetched[1].success

\* C8: when the review fetch of POST /api/scan fails, the scan still answers
\* 200 with success = true, the extraction as parsed, reviews = null,
\* productSearched = true and productFound = false.
C8_FailedReviewFetchKeepsScan ==
  (sc_pc = "done" /\ C8_FetchFailed) =>
    /\ sc_response[1].status = 200
    /\ sc_response[1].success
    /\ sc_response[1].data[1].extraction = sc_extraction[1]
    /\ Len(sc_response[1].data[1].reviews) = 0
    /\ sc_response[1].data[1].productSearched
    /\ ~sc_response[1].data[1].productFound

\* The reviews endpoint answered with a JSON body whose success is false.
C8_Witness ==
  /\ sc_pc = "done"
  /\ sc_fetched = <<[kind |-> "body", success |-> FALSE, data |-> <<>>]>>
  /\ sc_response[1].status = 200

\* C9: POST /api/scan with no image part in the form answers 400 with
\* success = false and error 'No image provided', and calls neither the vision
\* API nor the reviews endpoint.
C9_NoImageIs400 ==
  (sc_pc = "done" /\ Len(sc_form) = 1 /\ ~sc_form[1].hasImage) =>
    /\ sc_response[1].status = 400
    /\ ~sc_response[1].success
    /\ sc_response[1].error = "No image provided"
    /\ sc_visionCalls = 0
    /\ sc_reviewCalls = 0

\* A form without an image that asked for reviews was answered.
C9_Witness ==
  /\ sc_pc = "done"
  /\ sc_form = <<[hasImage |-> FALSE, includeReviews |-> "true"]>>
  /\ sc_response[1].status = 400


InUnitInterval(confidence) ==
  confidence.den > 0 /\ 0 <= confidence.num /\ confidence.num <= confidence.den

\* C3: the extraction confidence is in [0, 1]: calculateExtractionConfidence
\* returns a value between 0 and 1 inclusive for every extraction record, each
\* weighted field present, absent, null, empty or of the wrong type, at both
\* extraction depths, and the confidence of every successful answer of
\* POST /api/scan is in [0, 1].
C3_ConfidenceInUnitInterval ==
  /\ (vz_pc = "done" /\ ~vz_out[1].threw) => InUnitInterval(vz_out[1].confidence)
  /\ (sc_pc = "done" /\ sc_response[1].status = 200 /\ sc_response[1].success) =>
       InUnitInterval(sc_response[1].data[1].confidence)

\* A detailed extraction of an object whose roaster is a number (which scores),
\* whose productName is null, whose origin is empty and whose flavorNotes is a
\* string: the confidence is 0.3 + 0.1 of 1.
C3_Witness ==
  /\ vz_pc = "done"
  /\ vz_in.extractionDepth = "detailed"
  /\ vz_in.rawResponse.kind = "json"
  /\ vz_in.rawResponse.json.t = "object"
  /\ vz_in.rawResponse.json.data["roaster"] = Number(7)
  /\ vz_in.rawResponse.json.data["productName"] = Null
  /\ vz_in.rawResponse.json.data["origin"] = String(<<>>)
  /\ vz_in.rawResponse.json.data["roastLevel"] = String(<<"Medium", "-", "Dark">>)
  /\ vz_in.rawResponse.json.data["flavorNotes"] = String(<<"Chocolate">>)
  /\ vz_in.rawResponse.json.data["processingMethod"] = Undefined
  /\ vz_in.rawResponse.json.data["varietal"] = Array(<<>>)
  /\ ~vz_out[1].threw
  /\ vz_out[1].confidence = [num |-> 40, den |-> 100]

\* A capture that trim() leaves something of
Captured(capture) == Len(capture) = 1 /\ Trim(capture[1]) # <<>>

\* C6: when the vision API answers extractWithVision with a non-empty text that
\* is not JSON once the markdown fence is removed, the call does not throw: the
\* structuredData of its result is the cleaned record of extractFallbackData
\* (roaster, origin and roastLevel as the regular expressions captured them, no
\* productName, no flavorNotes) and its confidence is the one of that record.
C6_NonJsonTextFallsBack ==
  (vz_pc = "done" /\ vz_in.apiKey /\ ~vz_in.callThrows
     /\ vz_in.rawResponse.kind = "text") =>
    LET text == vz_in.rawResponse.text
        depth == vz_in.extractionDepth
        fallback == extractFallbackData(text)
    IN /\ ~vz_out[1].threw
       /\ vz_out[1].structuredData = cleanExtractionData(fallback, depth)
       /\ vz_out[1].confidence = calculateExtractionConfidence(fallback, depth)
       /\ (vz_out[1].structuredData["roaster"].t = "string") <=> Captured(text.roaster)
       /\ (vz_out[1].structuredData["origin"].t = "string") <=> Captured(text.origin)
       /\ (vz_out[1].structuredData["roastLevel"].t = "string") <=> Captured(text.roast)
       /\ vz_out[1].structuredData["productName"] = Undefined
       /\ vz_out[1].structuredData["flavorNotes"] = Undefined
       /\ vz_out[1].confidence.den = 100
       /\ vz_out[1].confidence.num =
            (IF Captured(text.roaster) THEN (IF depth = "basic" THEN 35 ELSE 30) ELSE 0)
            + (IF Captured(text.origin) THEN (IF depth = "basic" THEN 15 ELSE 20) ELSE 0)
            + (IF Captured(text.roast) THEN 10 ELSE 0)
            + (IF depth = "basic" /\ Len(text.brew) = 1 THEN 5 ELSE 0)

\* A fenced text that is not JSON, in which a roaster, a roast level and a
\* brewing method were captured: the result carries them cleaned, with the
\* confidence 0.35 + 0.1 + 0.05.
C6_Witness ==
  /\ vz_pc = "done"
  /\ vz_in.extractionDepth = "basic"
  /\ vz_in.rawResponse.kind = "text"
  /\ vz_in.rawResponse.fenced
  /\ vz_in.rawResponse.text =
       [roaster |-> <<<<"By", SP, "Acme", TAB, SP>>>>, origin |-> <<<<SP>>>>,
        roast |-> <<<<"Dark">>>>, brew |-> <<<<"Pour", SP, "Over">>>>]
  /\ ~vz_out[1].threw
  /\ vz_out[1].structuredData["roaster"] = String(<<"Acme">>)
  /\ vz_out[1].structuredData["origin"] = Undefined
  /\ vz_out[1].structuredData["roastLevel"] = String(<<"dark">>)
  /\ vz_out[1].structuredData["brewRecommendations"] = Array(<<<<"pour", "-", "over">>>>)
  /\ vz_out[1].confidence = [num |-> 50, den |-> 100]


\* C11: GET /api/reviews with roaster or productName missing or empty is
\* answered 400 with success = false and the error 'Roaster and product name
\* are required'; no browser is launched and no outbound request is made for
\* that request. Both versions of the route.
C11_MissingParameterIs400 ==
  /\ (rv_pc = "done" /\ (~Truthy(rv_req.roaster) \/ ~Truthy(rv_req.productName))) =>
       /\ rv_response[1] = JsonResponse(400, FALSE, "Roaster and product name are required", <<>>)
       /\ rv_launches = 0
  /\ (ag_pc = "done" /\ (~Truthy(ag_req.roaster) \/ ~Truthy(ag_req.productName))) =>
       /\ ag_response[1] = JsonResponse(400, FALSE, "Roaster and product name are required", <<>>)
       /\ ag_outbound = {}
       /\ \A i \in 1..3 : ag_sources[i] = Pending

\* The contextual route answered a request whose productName is empty.
C11_Witness ==
  /\ rv_pc = "done"
  /\ rv_req = [roaster |-> "Acme Roasters", productName |-> ""]
  /\ rv_response[1].status = 400


\* The fields the consumers of a review summary read
SummaryFields == {"totalReviews", "averageRating", "ratingDistribution", "recentReviews"}

\* C12: every successful answer of /api/reviews carries a summary with the
\* fields totalReviews, averageRating, ratingDistribution and recentReviews,
\* whichever version of the route (generateContextualReviews or
\* fetchAggregatedData) built it.
C12_SummaryHasFields ==
  /\ (rv_pc = "done" /\ rv_response[1].success) =>
       SummaryFields \subseteq DOMAIN rv_response[1].data[1]
  /\ (ag_pc = "done" /\ ag_response[1].success) =>
       SummaryFields \subseteq DOMAIN ag_response[1].data[1]


\* The request is a POST whose JSON body is an object with the values a GET
\* can carry as query parameters (strings), or without them.
C13_PostOfStrings ==
  /\ r3_req.method = "POST"
  /\ r3_req.body = "object"
  /\ r3_req.roaster # NOT_A_STRING
  /\ r3_req.productName # NOT_A_STRING

\* C13: /api/reviews accepts POST as well as GET: a POST with the JSON body
\* {roaster, productName} is answered like the GET with the same values, 400
\* when one of them is missing and else 200 with success = true and a review
\* summary.
C13_PostHandledLikeGet ==
  (r3_pc = "done" /\ C13_PostOfStrings) =>
    IF MissingParameter(r3_req.roaster, r3_req.productName)
      THEN r3_response[1].status = 400
      ELSE /\ r3_response[1].status = 200
           /\ r3_response[1].success
           /\ Len(r3_response[1].data) = 1


\* The platforms of the dataSources entries that stand for one of the three
\* sources, in the order of dataSources
SourcePlatforms(dataSources) ==
  LET sourceEntries == SelectSeq(dataSources,
        LAMBDA d : d.platform \in {"Amazon", "Reddit", "Official Website"})
  IN [i \in 1..Len(sourceEntries) |-> sourceEntries[i].platform]

\* The names of the tasks that fulfilled with a value, in the listed order
FulfilledNames(sources, names) ==
  LET fulfilled(i) == sources[i].status = "fulfilled" /\ Len(sources[i].value) = 1
  IN (IF fulfilled(1) THEN <<names[1]>> ELSE <<>>)
     \o (IF fulfilled(2) THEN <<names[2]>> ELSE <<>>)
     \o (IF fulfilled(3) THEN <<names[3]>> ELSE <<>>)

WithinContributions(cs, x) ==
  /\ \E i \in 1..Len(cs) : cs[i].rating.num * x.den <= x.num * cs[i].rating.den
  /\ \E i \in 1..Len(cs) : x.num * cs[i].rating.den <= cs[i].rating.num * x.den
  /\ Len(cs) = 1 => x.num * cs[1].rating.den = cs[1].rating.num * x.den

\* The overall rating of the contributions cs is a weighted average of their
\* ratings, 3.5 when there is none, and reported is that value rounded to one
\* decimal.
WeightedAverageOf(cs, reported) ==
  LET overallRating == OverallRating(cs)
  IN /\ \A i \in 1..Len(cs) : cs[i].weight > 0
     /\ IF Len(cs) = 0
          THEN overallRating.num = 35 * overallRating.den
          ELSE WithinContributions(cs, overallRating)
     /\ reported = MathRoundFraction(overallRating.num, overallRating.den)

\* C15: the aggregated rating is a weighted average over at most three data
\* points. In fetchAggregatedData and in calculateConsensus the unrounded
\* overall rating lies between the smallest and the largest rating of the
\* contributing sources, equals the rating of the source when exactly one
\* contributes and is 3.5 when none does; the reported rating is that value
\* rounded to one decimal.
C15_WeightedAverage ==
  /\ (ag_pc = "done" /\ ag_response[1].success) =>
       /\ Len(Contributions(ag_sources)) <= 3
       /\ WeightedAverageOf(Contributions(ag_sources),
                            ag_response[1].data[1].averageRating)
  /\ db_pc = "done" =>
       /\ Len(SourceContributions(validSources(db_sources))) <= 3
       /\ WeightedAverageOf(SourceContributions(validSources(db_sources)),
                            db_result[1].overallRating)


\* C16: POST /api/scan retries nothing. For one request the vision API is
\* called at most once and the reviews endpoint is requested at most once; a
\* call that failed is not issued again: the request is over after a failed
\* vision call, and after a failed review fetch, with that one call made.
C16_NoRetry ==
  /\ sc_visionCalls <= 1
  /\ sc_reviewCalls <= 1
  /\ (Len(sc_aiResponse) = 1 /\ sc_aiResponse[1].threw) =>
       sc_pc = "done" /\ sc_visionCalls = 1 /\ sc_reviewCalls = 0
  /\ (Len(sc_fetched) = 1 /\ ~(sc_fetched[1].kind = "body" /\ sc_fetched[1].success)) =>
       sc_pc = "done" /\ sc_visionCalls = 1 /\ sc_reviewCalls = 1

\* The request to the reviews endpoint failed with a network error and the
\* scan was answered after that one request.
C16_Witness ==
  /\ sc_pc = "done"
  /\ Len(sc_fetched) = 1
  /\ sc_fetched[1].kind = "networkError"
  /\ sc_visionCalls = 1
  /\ sc_reviewCalls = 1
  /\ sc_response[1].status = 200


\* C17: the patched fetch aborts after timeoutMs. A call made through the
\* wrapper, with or without a signal of the caller in init, is not pending
\* once more than timeoutMs has passed, and once the timer has fired the
\* call has rejected.
C17_TimeoutAborts ==
  pf_call.wrapped =>
    /\ pf_pc = "pending" => pf_elapsed <= pf_call.timeoutMs
    /\ pf_call.timer = "fired" => pf_pc = "rejected"

\* C18: the wrapper is applied once for the process. After any patches, by
\* patchFetch with any options or by the inline patch, fetch is the original
\* wrapped exactly once and the timeout in force is that of the first patch.
C18_PatchedOnce ==
  /\ pf_patches = <<>> => pf_global = Unpatched
  /\ pf_patches # <<>> =>
       /\ pf_global.patched
       /\ pf_global.wrappers = <<pf_patches[1]>>
  /\ pf_pc = "pending" /\ pf_call.wrapped => pf_call.timeoutMs = pf_patches[1]

\* patchFetch({ timeoutMs: 2000 }) came first, then the inline patch and
\* patchFetch({}), and a call of fetch is pending under the timeout 2000.
C18_Witness ==
  /\ pf_patches = <<2000, InlineTimeoutMs, DefaultTimeoutMs>>
  /\ pf_global.wrappers = <<2000>>
  /\ pf_pc = "pending"
  /\ pf_call.timeoutMs = 2000
  /\ pf_elapsed = 2000


\* C19: when nothing was found the contextual route fabricates. If
\* searchForProductPage scraped no product page with a positive review count,
\* the summary has totalReviews an integer in 15..64, averageRating a
\* one-decimal value in 3.5..5.0, three or four recentReviews each with an
\* integer rating in 1..5, and no productPage.
C19_NothingFoundFabricates ==
  (rv_pc = "done" /\ rv_response[1].success /\ rv_productInfo = <<>>) =>
    LET summary == rv_response[1].data[1]
    IN /\ summary.totalReviews \in 15..64
       /\ summary.averageRating \in 35..50
       /\ Len(summary.recentReviews) \in {3, 4}
       /\ \A i \in 1..Len(summary.recentReviews) : summary.recentReviews[i].rating \in 1..5
       /\ ~summary.hasProductPage

\* Every search query failed or found no reviews, and the answer is a
\* fabricated summary: 64 reviews averaging 5.0, four recent reviews.
C19_Witness ==
  /\ rv_pc = "done"
  /\ rv_productInfo = <<>>
  /\ rv_query = SearchQueryCount
  /\ Len(rv_response) = 1
  /\ rv_response[1].success
  /\ rv_response[1].data[1].totalReviews = 64
  /\ rv_response[1].data[1].averageRating = 50
  /\ Len(rv_response[1].data[1].recentReviews) = 4


\* The candidates as listed: for a Kicking Horse roaster in the later version
\* the four direct URLs, then the three search queries.
C20_Listed ==
  IF r3_req.version = "later" /\ r3_req.roaster = KICKING_HORSE
    THEN <<"directUrl1", "directUrl2", "directUrl3", "directUrl4",
           "searchQuery1", "searchQuery2", "searchQuery3">>
    ELSE <<"searchQuery1", "searchQuery2", "searchQuery3">>

\* C20: searchForProductPage tries its candidates in the listed order, one
\* at a time. It returns the first scraped info with totalReviews > 0 and
\* tries no candidate after it; an exception, a missing URL or a zero count
\* for a candidate does not stop the later ones; it returns null only after
\* every candidate has been tried.
C20_CandidatesInOrder ==
  LET n == Len(r3_tried)
  IN /\ n <= Len(C20_Listed)
     /\ \A i \in 1..n : r3_tried[i].candidate = C20_Listed[i]
     /\ \A i \in 1..n : i < n => r3_tried[i].totalReviews = 0
     /\ r3_pc = "search" =>
          /\ n < Len(C20_Listed)
          /\ n > 0 => r3_tried[n].totalReviews = 0
     /\ (r3_pc \in {"generate", "done"} /\ n > 0) =>
          IF r3_tried[n].totalReviews > 0
            THEN /\ Len(r3_productInfo) = 1
                 /\ r3_productInfo[1].totalReviews = r3_tried[n].totalReviews
            ELSE r3_productInfo = <<>> /\ n = Len(C20_Listed)

\* For Kicking Horse the four direct URLs and the first search query gave
\* nothing and the second search query gave a page with 7 reviews, which
\* was returned; the third query was not tried.
C20_Witness ==
  /\ r3_pc = "done"
  /\ r3_req.version = "later"
  /\ Len(r3_tried) = 6
  /\ r3_tried[6].candidate = "searchQuery2"
  /\ Len(r3_productInfo) = 1
  /\ r3_productInfo[1].totalReviews = 7
  /\ r3_response[1].status = 200


\* C21: generateSampleFeedback returns exactly 3 samples, for every
\* combination of present and absent Amazon, Reddit and website sources,
\* every Reddit sentiment and every overall rating.
C21_ThreeSamples ==
  sf_pc = "returned" => Len(sf_out) = 3

\* Called with only a Reddit source of negative sentiment and the overall
\* rating 3.0: one sample from Reddit and two fillers.
C21_Witness ==
  /\ sf_pc = "returned"
  /\ Len(sf_in.sources) = 1
  /\ sf_in.sources[1].platform = "Reddit"
  /\ sf_in.sources[1].sentiment = "negative"
  /\ sf_in.overallRating = [num |-> 60, den |-> 2]
  /\ Len(sf_out) = 3
  /\ sf_out[1].id = "sample-reddit"
  /\ sf_out[2].id = "sample-filler-1"
  /\ sf_out[3].id = "sample-filler-2"


\* The processing method answered, in lower case, for a call in detailed
\* mode that returned and whose answer names one
C23_Named ==
  /\ vz_pc = "done"
  /\ vz_in.extractionDepth = "detailed"
  /\ ~vz_out[1].threw
  /\ vz_in.rawResponse.json.data["processingMethod"].t = "string"
  /\ vz_in.rawResponse.json.data["processingMethod"].s # <<>>
C23_Processing == ToLowerCase(vz_in.rawResponse.json.data["processingMethod"].s)
C23_Standardized == vz_out[1].structuredData["processingMethod"]

\* C23: in detailed mode cleanExtractionData standardizes processingMethod by
\* keyword: containing 'washed' or 'wet' gives 'washed', 'natural' or 'dry'
\* gives 'natural', 'honey' or 'pulped natural' gives 'honey', 'wet hulled'
\* or 'giling basah' gives 'wet-hulled', 'experimental' or 'anaerobic' gives
\* 'experimental'; each of the five standard values is produced for the
\* inputs naming it.
C23_ProcessingByKeyword ==
  C23_Named =>
    /\ (Includes(C23_Processing, <<"wet", SP, "hulled">>)
          \/ Includes(C23_Processing, <<"giling", SP, "basah">>)
          \/ C23_Processing = <<"wet", "-", "hulled">>)
         => C23_Standardized = String(<<"wet", "-", "hulled">>)
    /\ (Includes(C23_Processing, <<"honey">>)
          \/ Includes(C23_Processing, <<"pulped", SP, "natural">>))
         => C23_Standardized = String(<<"honey">>)
    /\ (Includes(C23_Processing, <<"experimental">>)
          \/ Includes(C23_Processing, <<"anaerobic">>))
         => C23_Standardized = String(<<"experimental">>)
    /\ ((Includes(C23_Processing, <<"washed">>) \/ Includes(C23_Processing, <<"wet">>))
          /\ ~Includes(C23_Processing, <<"wet", SP, "hulled">>)
          /\ C23_Processing # <<"wet", "-", "hulled">>)
         => C23_Standardized = String(<<"washed">>)
    /\ ((Includes(C23_Processing, <<"natural">>) \/ Includes(C23_Processing, <<"dry">>))
          /\ ~Includes(C23_Processing, <<"pulped", SP, "natural">>))
         => C23_Standardized = String(<<"natural">>)


\* C22: when none of the three sources yields data, fetchAggregatedData
\* returns the estimation fallback: totalReviews 0, averageRating 3.5,
\* confidenceLevel 0.3, every ratingDistribution bucket 0, no productPage, and
\* dataSources with the single entry of platform 'Estimated', rating 3.5 and
\* confidence 0.3 (confidences in twentieths, ratings in tenths).
C22_EstimationFallback ==
  (ag_pc = "done" /\ ag_response[1].success
     /\ \A i \in 1..3 : ag_sources[i].value = <<>>) =>
    LET summary == ag_response[1].data[1]
        dataSources == summary.aggregatedData.dataSources
    IN /\ summary.totalReviews = 0
       /\ summary.averageRating = 35
       /\ summary.aggregatedData.overallMetrics.confidenceLevel = 6
       /\ \A star \in 1..5 : summary.ratingDistribution[star] = 0
       /\ ~summary.hasProductPage
       /\ Len(dataSources) = 1
       /\ dataSources[1].platform = "Estimated"
       /\ dataSources[1].rating = <<35>>
       /\ dataSources[1].confidence = 6

\* The Reddit request failed first, the website gave nothing and Amazon
\* gave no result, and the route answered with the estimation.
C22_Witness ==
  /\ ag_pc = "done"
  /\ ag_order = <<2, 3, 1>>
  /\ \A i \in 1..3 : ag_sources[i] = Fulfilled(<<>>)
  /\ Len(ag_response) = 1
  /\ ag_response[1].status = 200
  /\ ag_response[1].data[1].aggregatedData.overallMetrics.sourcesCount = 1


\* C24: in every successful answer of POST /api/scan productFound implies
\* productSearched, and reviews is non-null exactly when productFound is true.
C24_FoundImpliesSearched ==
  (sc_pc = "done" /\ Len(sc_response) = 1 /\ sc_response[1].success) =>
    LET data == sc_response[1].data[1]
    IN /\ data.productFound => data.productSearched
       /\ (Len(data.reviews) = 1) <=> data.productFound

\* The scan was answered with the reviews the endpoint returned.
C24_Witness ==
  /\ sc_pc = "done"
  /\ Len(sc_response) = 1
  /\ sc_response[1].success
  /\ sc_response[1].data[1].productSearched
  /\ sc_response[1].data[1].productFound
  /\ sc_response[1].data[1].reviews = <<"summary">>

\* C25: on the home page, when reset runs while a scan request is in flight,
\* the response of that scan is never displayed afterwards: result and error
\* stay null until handleScan starts a new scan.
C25_CancelledNeverDisplayed ==
  hp_cancelled => hp_result = <<>> /\ hp_error = <<>>

\* C26: on the home page result and error are never both non-null, and at
\* most one scan request is in flight, in every state reachable by file
\* selection, handleScan, scan completion and reset.
C26_OneOutcomeOneRequest ==
  /\ ~(hp_result # <<>> /\ hp_error # <<>>)
  /\ Cardinality(hp_inflight) <= 1
C26_Witness ==
  /\ Cardinality(hp_inflight) = 1
  /\ hp_cancelled
  /\ hp_file # <<>>
  /\ hp_scans = 2

\* C27: once handleScan has set isScanning to true, isScanning returns to
\* false, whatever the outcome of the request, provided the fetch settles.
C27_ScanningEnds == hp_isScanning ~> ~hp_isScanning
C27_Witness ==
  /\ hp_scans >= 1
  /\ ~hp_isScanning
  /\ hp_inflight = {}
  /\ hp_error = <<"Network error occurred">>

\* C28: findProductUrl and scrapeProductPage call browser.close() on every
\* browser they launched, after a page failure (page creation, navigation
\* timeout, evaluation) as well as on success, and a call that returns has
\* closed the browser it launched.
C28_BrowserClosed ==
  (br_pc = "returned" /\ Len(br_out) = 1) =>
    /\ br_out[1].browser # "open"
    /\ ~br_out[1].threw => br_out[1].browser \in {"none", "closed"}
C28_Witness ==
  /\ br_pc = "returned" /\ Len(br_out) = 1
  /\ br_in.fn = "scrapeProductPage"
  /\ br_in.body = "pageFail"
  /\ br_out[1].returnedNull
  /\ br_out[1].browser = "closed"

\* C29: when the multi-source /api/reviews has responded, the browser that
\* scrapeAmazonData launched for the request is not left open, also when page
\* creation, navigation or evaluation threw.
C29_AmazonBrowserClosed ==
  (ag_pc = "done" /\ Len(ag_response) = 1) => ag_browser # "open"
====
